---- MODULE Spec2Model ----
(***************************************************************************)
(* The size-bounded, last-access-ordered cache filesystem of kafero        *)
(* (SizeCacheFS and its file handle SizeCacheFile) over two tier           *)
(* filesystems with the semantics of OsFs.  Every overlay operation is one *)
(* atomic step; several file handles may be open at once.                  *)
(***************************************************************************)
EXTENDS Integers, Sequences, FiniteSets, TLC

\* ---------------------------------------------------------------- bounds
MaxLen == 2
MaxHandles == 2
MaxTime == 1
MaxCacheSize == 2
MaxOpens == 3
MaxOpensRemoved == 2
MaxOpensPinned == 2
MaxOpensTree == 2
MaxOpensSaved == 1
MaxOpensWalk == 2
MaxOpensZero == 2
MaxOpensStatus == 1
MaxOpensFault == 1
MaxOpensSync == 2
MaxZLen == 2
MaxZStream == 6

MicrosPerMilli == 1000
NanosPerMilli == 1000000

\* the paths, in the lexicographic order of the keys, and filepath.Dir of each
PathSeq == <<"a", "b", "d/c">>
PathDir == <<".", ".", "d">>
Paths == {PathSeq[i] : i \in 1..Len(PathSeq)}
Bytes == {1}
NumInodes == Cardinality(Paths) + MaxHandles
Inodes == 1..NumInodes

\* position of a path in the lexicographic order of the keys
PathRank(p) == CHOOSE i \in 1..Len(PathSeq) : PathSeq[i] = p

\* filepath.Dir; the directories other than the root; the paths in the root
Dir(p) == PathDir[PathRank(p)]
Dirs == {Dir(p) : p \in Paths} \ {"."}
RootPaths == {p \in Paths : Dir(p) = "."}

\* ------------------------------------------------------------ open flags
O_RDONLY == {}
CreateFlag == {"O_RDWR", "O_CREATE", "O_TRUNC"}
OpenFlags == { {"O_WRONLY", "O_APPEND"},
               {"O_RDWR", "O_TRUNC"} }

\* ----------------------------------------------------------------- state
VARIABLES
  cacheSize,   \* SizeCacheFS.cacheSize, the capacity
  currSize,    \* SizeCacheFS.currSize
  files,       \* SizeCacheFS.files, the index: a set of cacheFile records, one per key
  base,        \* the base tier
  cache,       \* the cache tier
  dirs,        \* the directories of the two tiers, their roots apart
  cacheindex,  \* the file .cacheindex of the cache tier
  handles,     \* the SizeCacheFile handles handed out to callers
  now,         \* the last reading of the clock (time.Now()), in milliseconds
  crashed,     \* a nil dereference has ended the process
  evicted,     \* the victims popped by the most recent call, in order
  budget,      \* the number of create, open and openWithFlags calls still to come
  ghosts,      \* which of the history variables written and removed are recorded, and
               \* "mtime" where the tiers keep modification times: no operation but the
               \* walk of the constructor reads them (cacheTime is 0)
  written,     \* per path: the content that the handle of the last write committed when
               \* it closed; not valid while the last write is uncommitted (by: its slot)
  removed,     \* per path: how the last successful remove found it, "no" once it is created anew
  cacheTime,   \* SizeCacheFS.cacheTime, the time a cache file is taken as fresh (0: for ever)
  zfs,         \* the compression overlay: the files of its source and how it was built
  zfile,       \* the File handle that the compression overlay has handed out
  zret,        \* what the last call on the compression overlay or its handle returned
  tree,        \* the eviction walk: the files and directories of a cache tier with nested directories
  victim,      \* the eviction walk: the path of the victim that was removed last
  ubase,       \* UnionFile.Base: the content and the position of the file of the base
  ulayer,      \* UnionFile.Layer: the content and the position of the file of the layer
  uoff,        \* UnionFile.off
  ufailed,     \* some call on the UnionFile has returned an error
  cacheL,      \* SizeCacheFS.cacheL: the caller that holds the mutex, 0 when it is free
  pc,          \* per concurrent caller: the statement it executes next
  local,       \* per concurrent caller: its local variables
  heap,        \* the cacheFile objects that the concurrent callers have pointers to
  lfiles,      \* SizeCacheFS.files as the concurrent callers see it: pointers, by key
  lcurrSize,   \* SizeCacheFS.currSize as the concurrent callers see it
  lcache,      \* the paths that the cache tier of the concurrent callers holds
  lbudget      \* the number of calls that the concurrent callers still start

\* the variables of the compression overlay, and those of the cache overlay
zvars == <<zfs, zfile, zret>>
cvars == <<cacheSize, currSize, files, base, cache, dirs, cacheindex, handles, now, crashed, evicted,
           budget, ghosts, written, removed, cacheTime>>

\* the variables of the eviction walk, of the UnionFile and of the concurrent callers
gvars == <<tree, victim>>
uvars == <<ubase, ulayer, uoff, ufailed>>
lvars == <<cacheL, pc, local, heap, lfiles, lcurrSize, lcache, lbudget>>
svars == <<gvars, uvars, lvars>>

vars == <<cvars, zvars, svars>>

\* a *cacheFile; the nil pointer is NilInfo
cacheFile(path, size, time) == [Path |-> path, Size |-> size, LastAccessTime |-> time]
NilInfo == cacheFile("", 0, 0)

\* A SizeCacheFile.  Base and Cache are the files that slot k holds open in the
\* two tiers (base.refs[k], cache.refs[k]).  info is the Path of the handle's
\* *cacheFile ("" for nil): Close overwrites its Size and LastAccessTime before
\* anything reads them.  off is the offset of the Cache file.  hasBase: Base is
\* not nil.
NoHandle == [open |-> FALSE, name |-> "", flag |-> {}, info |-> "", off |-> 0, hasBase |-> FALSE]

NoWrite == [valid |-> FALSE, data |-> <<>>, by |-> 0]

\* ------------------------------------------------------ the tier filesystems
\* A tier is [names, data, mtime, refs].  names[p] is the inode of path p or 0,
\* data[i] the bytes of inode i, mtime[i] its modification time, refs[k] the
\* inode that handle slot k holds open or 0.
\* An unlinked inode lives on while a slot holds it open.  Inodes are numbered
\* canonically: the file linked at p is inode PathRank(p), an unlinked file is
\* inode Cardinality(Paths) + k for the smallest slot k that holds it.
NumPaths == Cardinality(Paths)
Slots == 1..MaxHandles

EmptyFs == [names |-> [p \in Paths |-> 0],
            data |-> [i \in Inodes |-> <<>>],
            mtime |-> [i \in Inodes |-> 0],
            refs |-> [k \in Slots |-> 0]]

MinOf(S) == CHOOSE x \in S : \A y \in S : x <= y

Holders(fs, i) == {k \in Slots : fs.refs[k] = i}

\* move inode i to number j
Renumber(fs, i, j) ==
  IF i = j THEN fs
  ELSE [fs EXCEPT !.data = [x \in Inodes |-> IF x = j THEN fs.data[i]
                                             ELSE IF x = i THEN <<>> ELSE fs.data[x]],
                  !.mtime = [x \in Inodes |-> IF x = j THEN fs.mtime[i]
                                              ELSE IF x = i THEN 0 ELSE fs.mtime[x]],
                  !.refs = [k \in Slots |-> IF fs.refs[k] = i THEN j ELSE fs.refs[k]]]

\* inode i has lost its name or a holder: it is dropped, or lives on unlinked
Settle(fs, i) ==
  IF Holders(fs, i) = {} THEN [fs EXCEPT !.data[i] = <<>>, !.mtime[i] = 0]
  ELSE Renumber(fs, i, NumPaths + MinOf(Holders(fs, i)))

FsExists(fs, p) == fs.names[p] # 0

Unlink(fs, p) == Settle([fs EXCEPT !.names[p] = 0], fs.names[p])

\* os.OpenFile for slot k
FsOpenFile(fs, k, p, flag) ==
  IF FsExists(fs, p)
  THEN IF {"O_CREATE", "O_EXCL"} \subseteq flag
       THEN [err |-> "ErrExist", fs |-> fs]
       ELSE [err |-> "nil",
             fs |-> [fs EXCEPT !.refs[k] = fs.names[p],
                               !.data[fs.names[p]] =
                                  IF "O_TRUNC" \in flag THEN <<>> ELSE @]]
  ELSE IF "O_CREATE" \in flag
       THEN [err |-> "nil",
             fs |-> [fs EXCEPT !.names[p] = PathRank(p),
                               !.refs[k] = PathRank(p),
                               !.data[PathRank(p)] = <<>>,
                               !.mtime[PathRank(p)] = 0]]
       ELSE [err |-> "ErrNotExist", fs |-> fs]

\* os.Create
FsCreate(fs, k, p) == FsOpenFile(fs, k, p, CreateFlag)

\* os.Open
FsOpen(fs, k, p) == FsOpenFile(fs, k, p, O_RDONLY)

\* File.Close of the file of slot k
FsCloseFile(fs, k) ==
  LET i == fs.refs[k]
      f1 == [fs EXCEPT !.refs[k] = 0]
  IN IF i = 0 \/ i <= NumPaths THEN f1 ELSE Settle(f1, i)

\* os.Remove
FsRemove(fs, p) ==
  IF FsExists(fs, p)
  THEN [err |-> "nil", fs |-> Unlink(fs, p)]
  ELSE [err |-> "ErrNotExist", fs |-> fs]

\* os.Rename: newname is replaced
FsRename(fs, old, new) ==
  IF ~FsExists(fs, old) THEN [err |-> "ErrNotExist", fs |-> fs]
  ELSE IF old = new THEN [err |-> "nil", fs |-> fs]
  ELSE LET f1 == IF FsExists(fs, new) THEN Unlink(fs, new) ELSE fs
           f2 == Renumber(f1, PathRank(old), PathRank(new))
       IN [err |-> "nil",
           fs |-> [f2 EXCEPT !.names[old] = 0, !.names[new] = PathRank(new)]]

\* os.Stat
FsStat(fs, p) ==
  IF FsExists(fs, p)
  THEN [err |-> "nil", size |-> Len(fs.data[fs.names[p]])]
  ELSE [err |-> "ErrNotExist", size |-> 0]

\* the bytes of the file that slot k holds open
FileData(fs, k) == fs.data[fs.refs[k]]

\* os.Chtimes
FsChtimes(fs, p, t) ==
  IF FsExists(fs, p) THEN [fs EXCEPT !.mtime[fs.names[p]] = t] ELSE fs

\* the directory of path p is there, in a tier with the directories ds
HasDir(ds, p) == Dir(p) = "." \/ Dir(p) \in ds

\* os.MkdirAll
FsMkdirAll(ds, d) == ds \cup ({d} \ {"."})

\* the files at or below name; the directories at or below name
Under(name) == {p \in Paths : p = name \/ Dir(p) = name}
DirsUnder(name) == Dirs \cap {name}

\* os.RemoveAll: no error where there is nothing to remove
RECURSIVE FsRemoveAll(_, _)
FsRemoveAll(fs, name) ==
  IF \E p \in Under(name) : FsExists(fs, p)
  THEN FsRemoveAll(Unlink(fs, CHOOSE p \in Under(name) : FsExists(fs, p)), name)
  ELSE fs

\* ---------------------------------------------------------------- the index
getCacheFile(fl, name) ==
  IF \E e \in fl : e.Path = name THEN CHOOSE e \in fl : e.Path = name ELSE NilInfo

\* PopMin taking the entry from the wrong end of the order
PopMax(fl) ==
  CHOOSE e \in fl : \A o \in fl :
    \/ e.LastAccessTime > o.LastAccessTime
    \/ e.LastAccessTime = o.LastAccessTime /\ PathRank(e.Path) >= PathRank(o.Path)

\* SortedSet.PopMin: the smallest score, equal scores by key
PopMin(fl) ==
  CHOOSE e \in fl : \A o \in fl :
    \/ e.LastAccessTime < o.LastAccessTime
    \/ e.LastAccessTime = o.LastAccessTime /\ PathRank(e.Path) <= PathRank(o.Path)

\* SortedSet.AddOrUpdate
AddOrUpdate(fl, info) == {e \in fl : e.Path # info.Path} \cup {info}

\* removeFromCache forgetting to give the entry's bytes back
removeFromCacheKeepSize(fl, cs, name) ==
  LET node == getCacheFile(fl, name)
  IN IF node # NilInfo
     THEN [files |-> fl \ {node}, currSize |-> cs]
     ELSE [files |-> fl, currSize |-> cs]

removeFromCache(fl, cs, name) ==
  LET node == getCacheFile(fl, name)
  IN IF node # NilInfo
     THEN [files |-> fl \ {node}, currSize |-> cs - node.Size]
     ELSE [files |-> fl, currSize |-> cs]

\* the loop condition without its test against the capacity
cacheIsFullAlways(cs, size) == cs > 0

\* the condition of the eviction loop of addToCache
cacheIsFull(cs, size) == cs > 0 /\ cs + size > cacheSize

\* the eviction loop of addToCache, the parent directories of the victims apart
RECURSIVE evictLoop(_, _)
evictLoop(st, size) ==
  IF cacheIsFull(st.currSize, size)
  THEN IF st.files = {}
       THEN [st EXCEPT !.panic = TRUE]
       ELSE LET file == PopMin(st.files)
                rest == st.files \ {file}
            IN evictLoop([files |-> rest,
                          currSize |-> st.currSize - file.Size,
                          cache |-> FsRemove(st.cache, file.Path).fs,
                          victims |-> Append(st.victims, [victim |-> file, rest |-> rest]),
                          panic |-> FALSE], size)
  ELSE st

\* addToCache adding the size of the entry to currSize without taking the size
\* of the entry it replaces from it
addToCacheCountingTwice(fl, cs, cfs, info) ==
  LET st == evictLoop([files |-> fl, currSize |-> cs, cache |-> cfs,
                       victims |-> <<>>, panic |-> FALSE], info.Size)
  IN IF st.panic THEN st
     ELSE [st EXCEPT !.files = AddOrUpdate(st.files, info),
                     !.currSize = st.currSize + info.Size]

addToCache(fl, cs, cfs, info) ==
  LET node == getCacheFile(fl, info.Path)
      cs1 == IF node # NilInfo THEN cs - node.Size ELSE cs
      st == evictLoop([files |-> fl, currSize |-> cs1, cache |-> cfs,
                       victims |-> <<>>, panic |-> FALSE], info.Size)
  IN IF st.panic THEN st
     ELSE [st EXCEPT !.files = AddOrUpdate(st.files, info),
                     !.currSize = st.currSize + info.Size]

\* the inner loop of the eviction loop: the parent directory of a victim is
\* removed from the cache tier when it has no entry left.  The loop only takes
\* files away, so a directory is empty after its last victim exactly when it
\* is empty in the end.
removeEmptyParents(ds, cfs, victims) ==
  {d \in ds : \/ \A i \in 1..Len(victims) : Dir(victims[i].victim.Path) # d
              \/ \E p \in Paths : Dir(p) = d /\ FsExists(cfs, p)}

\* lfi.ModTime().Add(u.cacheTime).Before(time.Now()), the clock reading t:
\* cacheTime counts nanoseconds, the clock and the modification times milliseconds
ttlElapsed(cfs, name, t) ==
  cfs.mtime[cfs.names[name]] * NanosPerMilli + cacheTime < t * NanosPerMilli

\* cacheStatus of the overlay without cacheTime (size_cache_fs.go): it looks at
\* the base tier every time
cacheStatusUntimed(cfs, bfs, name) ==
  IF ~FsExists(cfs, name) THEN "cacheMiss"
  ELSE IF ~FsExists(bfs, name) THEN "cacheLocal"
  ELSE IF bfs.mtime[bfs.names[name]] > cfs.mtime[cfs.names[name]] THEN "cacheStale"
  ELSE "cacheHit"

\* cacheStatus, with the clock reading t where it reads the clock
cacheStatus(cfs, bfs, name, t) ==
  IF ~FsExists(cfs, name) THEN "cacheMiss"
  ELSE IF cacheTime = 0 THEN "cacheHit"
  ELSE IF ~ttlElapsed(cfs, name, t) THEN "cacheHit"
  ELSE IF ~FsExists(bfs, name) THEN "cacheLocal"
  ELSE IF bfs.mtime[bfs.names[name]] > cfs.mtime[cfs.names[name]] THEN "cacheStale"
  ELSE "cacheHit"

\* the clock readings that cacheStatus can get: it reads the clock where
\* cacheTime is set and the cache tier has the file
statusClock(name) ==
  IF cacheTime # 0 /\ FsExists(cache, name) THEN now..MaxTime ELSE {now}

\* copyToCache: the cache file becomes a copy of the base file, in the
\* directory that copyToCacheDirs makes
copyToCacheDirs(ds, name) == FsMkdirAll(ds, Dir(name))

copyToCache(cfs, bfs, name) ==
  [cfs EXCEPT !.names[name] = PathRank(name),
              !.data[PathRank(name)] = bfs.data[bfs.names[name]],
              !.mtime[PathRank(name)] = bfs.mtime[bfs.names[name]]]

\* the flag the cache file is opened with
cacheFlagOf(flag) ==
  IF flag \cap {"O_WRONLY", "O_RDWR", "O_APPEND", "O_CREATE", "O_TRUNC"} # {}
  THEN (flag \ {"O_WRONLY"}) \cup {"O_RDWR"}
  ELSE flag

\* ------------------------------------------------------------------ ghosts
\* the paths whose file in either tier is one of the two files of slot k
PathsOf(k) == {p \in Paths : \/ base.refs[k] # 0 /\ base.names[p] = base.refs[k]
                             \/ cache.refs[k] # 0 /\ cache.names[p] = cache.refs[k]}

\* the paths ps have been written to through slot k (0: by no handle)
Invalidate(w, ps, k) ==
  [p \in Paths |-> IF p \in ps THEN [valid |-> FALSE, data |-> <<>>, by |-> k] ELSE w[p]]

\* the new value of history variable g: recorded only where a specification asks for it
Record(g, old, new) == IF g \in ghosts THEN new ELSE old

\* the tier has written to its inode i at time t
Touch(fs, i, t) ==
  IF "mtime" \in ghosts /\ i # 0 THEN [fs EXCEPT !.mtime[i] = t] ELSE fs

\* time.Time.UnixNano() / 1000 and time.Time.UnixNano() / 1000000 of a clock reading
UnixMicro(t) == t * MicrosPerMilli
UnixMilli(t) == t

FreeSlots == {k \in Slots : ~handles[k].open}
CanOpen == ~crashed /\ budget > 0 /\ FreeSlots # {}
Slot == MinOf(FreeSlots)

NoDirs == [base |-> {}, cache |-> {}]

\* .cacheindex: not there, a JSON document, or bytes that are no JSON document
NoIndex == [state |-> "absent", doc |-> <<>>]
TornIndex == [state |-> "torn", doc |-> <<>>]

\* --------------------------------------------------- the compression overlay
\* The source filesystem of zstfs.Fs holds, for every path, the tokens of the
\* file or nothing.  A zstd frame is the magic number, the length of its
\* content and the content; a stream is any number of frames.
ZPaths == {PathSeq[1]}
ZMagic == 40
ZAbsent == [exists |-> FALSE, data |-> <<>>]

\* the flags OpenFile is called with
ZOpenFlags == { {"O_WRONLY"},
                {"O_WRONLY", "O_CREATE", "O_TRUNC"},
                {"O_WRONLY", "O_APPEND"},
                {"O_RDWR"} }

\* what zstd.Encoder writes to its file when it is closed after buf was written
ZEncode(buf) == <<ZMagic, Len(buf)>> \o buf

\* what zstd.Decoder gives for the tokens of a file: the content of the frames
\* up to the end of the file (io.EOF) or to the first token that starts no frame
RECURSIVE ZDecode(_)
ZDecode(tokens) ==
  IF tokens = <<>> THEN [data |-> <<>>, err |-> "EOF"]
  ELSE IF /\ Len(tokens) >= 2
          /\ tokens[1] = ZMagic
          /\ tokens[2] >= 0
          /\ tokens[2] + 2 <= Len(tokens)
       THEN LET rest == ZDecode(SubSeq(tokens, tokens[2] + 3, Len(tokens)))
            IN [data |-> SubSeq(tokens, 3, tokens[2] + 2) \o rest.data, err |-> rest.err]
       ELSE [data |-> <<>>, err |-> "ErrMagicMismatch"]

\* File.Write of the source file: tokens written at offset off
ZWriteTokens(data, off, tokens) ==
  [i \in 1..(IF off + Len(tokens) > Len(data) THEN off + Len(tokens) ELSE Len(data)) |->
      IF i > off /\ i <= off + Len(tokens) THEN tokens[i - off] ELSE data[i]]

\* the nil *zstd.Decoder and the nil *zstd.Encoder
NilReader == [active |-> FALSE, pending |-> <<>>, end |-> "", done |-> 0]
NilWriter == [active |-> FALSE, buf |-> <<>>]

\* zstfs.File.  File is the file of the source (its name and the flags it was
\* opened with; a writer writes once, at offset 0 or, in append mode, at the
\* end).  reader.pending is what the decoder has still to give, reader.end the
\* error after it, reader.done the bytes it has given.  wrote is history: the
\* bytes that Write has accepted.
NoZFile == [File |-> [name |-> "", oflag |-> {}], flag |-> {}, reader |-> NilReader,
            writer |-> NilWriter, readOffset |-> 0, closed |-> TRUE, wrote |-> <<>>]

\* &File{File: sourcef, fs: b.Fs, flag: flag}; the Fs of zstfs/fs.go leaves flag out
NewZFile(name, oflag, flag) ==
  [File |-> [name |-> name, oflag |-> oflag],
   flag |-> IF zfs.setsFlag THEN flag ELSE {},
   reader |-> NilReader, writer |-> NilWriter, readOffset |-> 0, closed |-> FALSE,
   wrote |-> <<>>]

ZRet(n, err) == [n |-> n, err |-> err]

\* the call op has returned ret
Called(op, ret) == [op |-> op, n |-> ret.n, err |-> ret.err]

\* no compression overlay in use
NoZst ==
  /\ zfs = [source |-> [p \in ZPaths |-> ZAbsent], setsFlag |-> FALSE]
  /\ zfile = NoZFile
  /\ zret = Called("NewFs", ZRet(0, "nil"))

\* the position of the handle's stream: the bytes written or the bytes decoded
StreamPos(f) == IF f.wrote # <<>> THEN Len(f.wrote) ELSE f.reader.done

\* the source's OpenFile
ZSourceOpenFile(src, name, oflag) ==
  IF src[name].exists
  THEN [err |-> "nil",
        source |-> IF "O_TRUNC" \in oflag THEN [src EXCEPT ![name].data = <<>>] ELSE src]
  ELSE IF "O_CREATE" \in oflag
       THEN [err |-> "nil", source |-> [src EXCEPT ![name] = [exists |-> TRUE, data |-> <<>>]]]
       ELSE [err |-> "ErrNotExist", source |-> src]

CanZOpen == zfile.closed

\* zstfs.Fs.OpenFile
ZOpenFile(name, flag) ==
  /\ CanZOpen
  /\ LET r == ZSourceOpenFile(zfs.source, name, flag)
     IN /\ zfs' = [zfs EXCEPT !.source = r.source]
        /\ zfile' = IF r.err = "nil" THEN NewZFile(name, flag, flag) ELSE zfile
        /\ zret' = Called("OpenFile", ZRet(0, r.err))
  /\ UNCHANGED <<svars, cvars>>

\* zstfs.Fs.Open
ZOpen(name) ==
  /\ CanZOpen
  /\ LET r == ZSourceOpenFile(zfs.source, name, O_RDONLY)
     IN /\ zfs' = [zfs EXCEPT !.source = r.source]
        /\ zfile' = IF r.err = "nil" THEN NewZFile(name, O_RDONLY, O_RDONLY) ELSE zfile
        /\ zret' = Called("Open", ZRet(0, r.err))
  /\ UNCHANGED <<svars, cvars>>

\* zstfs.Fs.Create
ZCreate(name) ==
  /\ CanZOpen
  /\ LET r == ZSourceOpenFile(zfs.source, name, CreateFlag)
     IN /\ zfs' = [zfs EXCEPT !.source = r.source]
        /\ zfile' = IF r.err = "nil" THEN NewZFile(name, CreateFlag, {"O_RDWR"}) ELSE zfile
        /\ zret' = Called("Create", ZRet(0, r.err))
  /\ UNCHANGED <<svars, cvars>>

\* a File has been handed out
HasZFile == zfile.File.name # ""

\* the reader the handle reads through: zstd.NewReader(f.File) on the first Read
ZReaderOf(f) ==
  IF f.reader.active THEN f.reader
  ELSE IF "O_WRONLY" \in f.File.oflag
       THEN [active |-> TRUE, pending |-> <<>>, end |-> "EBADF", done |-> 0]
       ELSE [active |-> TRUE,
             pending |-> ZDecode(zfs.source[f.File.name].data).data,
             end |-> ZDecode(zfs.source[f.File.name].data).err,
             done |-> 0]

\* File.Read into a buffer of n bytes: the handle after the call and what the
\* call returns.  A decoder that has fewer than n bytes left gives them with
\* its error or without it (early); Read counts them only without.
ZReadResult(f, n, early) ==
  IF f.closed THEN [file |-> f, ret |-> ZRet(0, "ErrFileClosed")]
  ELSE IF f.writer.active THEN [file |-> f, ret |-> ZRet(0, "EPERM")]
  ELSE LET rd == ZReaderOf(f)
           rem == Len(rd.pending)
           k == IF n <= rem THEN n ELSE rem
           err == IF n <= rem \/ (rem > 0 /\ ~early) THEN "nil" ELSE rd.end
           rd1 == [rd EXCEPT !.pending = SubSeq(rd.pending, k + 1, rem), !.done = @ + k]
       IN [file |-> [f EXCEPT !.reader = rd1,
                              !.readOffset = IF err = "nil" THEN @ + k ELSE @],
           ret |-> ZRet(k, err)]

\* File.Read
ZRead(n, early) ==
  /\ HasZFile
  /\ zfile' = ZReadResult(zfile, n, early).file
  /\ zret' = Called("Read", ZReadResult(zfile, n, early).ret)
  /\ UNCHANGED <<svars, cvars, zfs>>

\* what File.Seek returns and the handle it leaves
ZSeekResult(f, offset, whence, early) ==
  IF whence = "SeekStart"
  THEN [file |-> f, ret |-> IF offset = 0 /\ f.readOffset = 0
                            THEN ZRet(0, "nil") ELSE ZRet(0, "EPERM")]
  ELSE IF whence = "SeekCurrent"
  THEN IF offset = 0 THEN [file |-> f, ret |-> ZRet(0, "nil")]
       ELSE IF offset > 0
       THEN LET r == ZReadResult(f, offset, early)
            IN [file |-> r.file,
                ret |-> IF r.ret.err # "nil" THEN ZRet(0, r.ret.err) ELSE ZRet(r.ret.n, "nil")]
       ELSE [file |-> f, ret |-> ZRet(0, "EPERM")]
  ELSE [file |-> f, ret |-> ZRet(0, "EPERM")]

\* File.Seek
ZSeek(offset, whence, early) ==
  /\ HasZFile
  /\ zfile' = ZSeekResult(zfile, offset, whence, early).file
  /\ zret' = Called("Seek", ZSeekResult(zfile, offset, whence, early).ret)
  /\ UNCHANGED <<svars, cvars, zfs>>

\* File.Write without its test for a reader
ZWriteResultOnReader(f, byte) ==
  IF f.flag \cap {"O_WRONLY", "O_RDWR"} = {} THEN [file |-> f, ret |-> ZRet(0, "EPERM")]
  ELSE IF f.closed THEN [file |-> f, ret |-> ZRet(0, "ErrFileClosed")]
  ELSE [file |-> [f EXCEPT !.writer = [active |-> TRUE, buf |-> Append(f.writer.buf, byte)],
                           !.wrote = Append(@, byte)],
        ret |-> ZRet(1, "nil")]

\* what File.Write of one byte returns and the handle it leaves
ZWriteResult(f, byte) ==
  IF f.flag \cap {"O_WRONLY", "O_RDWR"} = {} THEN [file |-> f, ret |-> ZRet(0, "EPERM")]
  ELSE IF f.closed THEN [file |-> f, ret |-> ZRet(0, "ErrFileClosed")]
  ELSE IF f.reader.active THEN [file |-> f, ret |-> ZRet(0, "EPERM")]
  ELSE [file |-> [f EXCEPT !.writer = [active |-> TRUE, buf |-> Append(f.writer.buf, byte)],
                           !.wrote = Append(@, byte)],
        ret |-> ZRet(1, "nil")]

\* File.Write
ZWrite(byte) ==
  /\ HasZFile
  /\ Len(zfile.wrote) < MaxZLen
  /\ zfile' = ZWriteResult(zfile, byte).file
  /\ zret' = Called("Write", ZWriteResult(zfile, byte).ret)
  /\ UNCHANGED <<svars, cvars, zfs>>

\* a refusal that also rewinds the handle's read offset
RefuseRewinding(f) == [file |-> [f EXCEPT !.readOffset = 0], ret |-> ZRet(0, "EPERM")]

\* what ReadAt, WriteAt, Truncate and Mmap do: nothing, and syscall.EPERM
Refuse(f) == [file |-> f, ret |-> ZRet(0, "EPERM")]

\* File.ReadAt
ZReadAt(n, off) ==
  /\ HasZFile
  /\ zfile' = Refuse(zfile).file
  /\ zret' = Called("ReadAt", Refuse(zfile).ret)
  /\ UNCHANGED <<svars, cvars, zfs>>

\* File.WriteAt
ZWriteAt(byte, off) ==
  /\ HasZFile
  /\ zfile' = Refuse(zfile).file
  /\ zret' = Called("WriteAt", Refuse(zfile).ret)
  /\ UNCHANGED <<svars, cvars, zfs>>

\* File.Truncate
ZTruncate(size) ==
  /\ HasZFile
  /\ zfile' = Refuse(zfile).file
  /\ zret' = Called("Truncate", Refuse(zfile).ret)
  /\ UNCHANGED <<svars, cvars, zfs>>

\* File.Mmap
ZMmap(off, len) ==
  /\ HasZFile
  /\ zfile' = Refuse(zfile).file
  /\ zret' = Called("Mmap", Refuse(zfile).ret)
  /\ UNCHANGED <<svars, cvars, zfs>>

\* File.Close, once: the writer's frame goes to the source file, at its start
\* or, in append mode, at its end
ZClose ==
  /\ HasZFile
  /\ ~zfile.closed
  /\ LET name == zfile.File.name
         data == zfs.source[name].data
         off == IF "O_APPEND" \in zfile.File.oflag THEN Len(data) ELSE 0
     IN /\ off + Len(ZEncode(zfile.writer.buf)) <= MaxZStream
        /\ zfs' = IF zfile.writer.active
                   THEN [zfs EXCEPT !.source[name].data =
                            ZWriteTokens(data, off, ZEncode(zfile.writer.buf))]
                   ELSE zfs
  /\ zfile' = [zfile EXCEPT !.closed = TRUE, !.writer = NilWriter, !.reader = NilReader]
  /\ zret' = Called("Close", ZRet(0, "nil"))
  /\ UNCHANGED <<svars, cvars>>

\* ------------------------------------------------------------ the eviction walk
\* The cache tier of the walk is a tree of nested directories.  A path is the
\* sequence of its names: the tier root "." is the empty sequence, the
\* directories are d, d/d, ... down to MaxDepth levels, every directory and the
\* root can hold a file f, and the deepest directory a second file g.
MaxDepth == 3

Dot == <<>>
GDirs == {[i \in 1..n |-> "d"] : n \in 1..MaxDepth}
GFiles == {Append(d, "f") : d \in GDirs \cup {Dot}} \cup {Append([i \in 1..MaxDepth |-> "d"], "g")}

\* filepath.Dir of a clean relative path: "." for a path of one name and for "."
filepathDir(path) == IF Len(path) <= 1 THEN Dot ELSE SubSeq(path, 1, Len(path) - 1)

\* n lies below the directory d
IsUnder(n, d) == Len(n) > Len(d) /\ SubSeq(n, 1, Len(d)) = d

\* the directories above a path, the root apart
Ancestors(path) == {d \in GDirs : IsUnder(path, d)}

\* the trees a tier can hold: whatever exists lies in a directory that exists
Trees == {t \in SUBSET (GDirs \cup GFiles) : \A n \in t : filepathDir(n) = Dot \/ filepathDir(n) \in t}

\* Open(path) and Readdir(-1): the entries of the directory
Readdir(t, path) == {n \in t : Len(n) = Len(path) + 1 /\ IsUnder(n, path)}

\* The loop over the ancestors: it ends at ".", goes on to the parent where the
\* directory does not exist, removes the directory and goes on where it is
\* empty, and ends at the first directory that holds an entry.
RECURSIVE removeEmptyAncestors(_, _)
removeEmptyAncestors(t, path) ==
  IF path = Dot THEN t
  ELSE IF path \notin t THEN removeEmptyAncestors(t, filepathDir(path))
  ELSE IF Readdir(t, path) = {} THEN removeEmptyAncestors(t \ {path}, filepathDir(path))
  ELSE t

\* the loop that removes the direct parent only
evictWalkParentOnly(t, path) ==
  IF filepathDir(path) # Dot /\ filepathDir(path) \in t /\ Readdir(t \ {path}, filepathDir(path)) = {}
  THEN (t \ {path}) \ {filepathDir(path)}
  ELSE t \ {path}

\* One round of the eviction loop once the victim is popped: cache.Remove of
\* its file, which may be missing, then the loop over its ancestors.
evictWalk(t, path) == removeEmptyAncestors(t \ {path}, filepathDir(path))

NoVictim == [Path |-> Dot, from |-> {}]

\* the victim's Path is that of an entry of the index: any file path
EvictVictim(v) ==
  /\ tree' = evictWalk(tree, v)
  /\ victim' = [Path |-> v, from |-> tree]
  /\ UNCHANGED <<cvars, zvars, uvars, lvars>>

NoWalk == tree = {} /\ victim = NoVictim

\* ---------------------------------------------------------------- UnionFile
\* The two files of a UnionFile are files of the operating system: a content
\* and a position.  Contents are at most MaxULen bytes long, and a byte is one
\* of UBytes or the 0 of a hole.
MaxULen == 2

UBytes == 1..2
UContents == UNION {[1..n -> UBytes] : n \in 0..MaxULen}

\* the content once s is written at offset o: a hole of zeros where o lies beyond the end
PutAt(data, o, s) ==
  [i \in 1..(IF o + Len(s) > Len(data) THEN o + Len(s) ELSE Len(data)) |->
     IF i > o /\ i <= o + Len(s) THEN s[i - o] ELSE IF i <= Len(data) THEN data[i] ELSE 0]

\* the content once the file is truncated to size: cut, or extended by zeros
Resize(data, size) == [i \in 1..size |-> IF i <= Len(data) THEN data[i] ELSE 0]

\* File.Read into a buffer of m bytes: the bytes left, m at most; io.EOF where none is left
FileReadN(f, m) ==
  IF f.pos >= Len(f.data) THEN 0 ELSE IF Len(f.data) - f.pos < m THEN Len(f.data) - f.pos ELSE m

\* File.ReadAt into a buffer of m bytes: io.EOF unless all m bytes are there
FileReadAtN(f, m, o) == IF o >= Len(f.data) THEN 0 ELSE IF Len(f.data) - o < m THEN Len(f.data) - o ELSE m

\* File.Seek: the new position
FileSeekPos(f, o, w) ==
  CASE w = "SeekStart" -> o
    [] w = "SeekCurrent" -> f.pos + o
    [] w = "SeekEnd" -> Len(f.data) + o

Whences == {"SeekStart", "SeekCurrent", "SeekEnd"}

\* File.Write: at the position, which moves on
FileWriteAtPos(f, s) == [data |-> PutAt(f.data, f.pos, s), pos |-> f.pos + Len(s)]

\* NewUnionFile: off is the position of the layer
NewUnionFile(b, l) ==
  /\ ubase = b
  /\ ulayer = l
  /\ uoff = l.pos
  /\ ufailed = FALSE

UnionRead(m) ==
  LET n == FileReadN(ulayer, m)
  IN /\ ulayer' = [ulayer EXCEPT !.pos = @ + n]
     /\ uoff' = uoff + n
     /\ ufailed' = (ufailed \/ n = 0)
     /\ UNCHANGED <<ubase, cvars, zvars, gvars, lvars>>

UnionReadAt(m, o) ==
  LET n == FileReadAtN(ulayer, m, o)
  IN /\ uoff + n <= MaxULen
     /\ uoff' = uoff + n
     /\ ufailed' = (ufailed \/ n < m)
     /\ UNCHANGED <<ubase, ulayer, cvars, zvars, gvars, lvars>>

UnionSeek(o, w) ==
  LET pos == FileSeekPos(ulayer, o, w)
  IN /\ pos <= MaxULen
     /\ ulayer' = [ulayer EXCEPT !.pos = pos]
     /\ uoff' = pos
     /\ UNCHANGED <<ubase, ufailed, cvars, zvars, gvars, lvars>>

UnionWrite(s) ==
  /\ ulayer.pos + Len(s) <= MaxULen
  /\ uoff + Len(s) <= MaxULen
  /\ ulayer' = FileWriteAtPos(ulayer, s)
  /\ ubase' = FileWriteAtPos([ubase EXCEPT !.pos = uoff], s)
  /\ uoff' = uoff + Len(s)
  /\ UNCHANGED <<ufailed, cvars, zvars, gvars, lvars>>

UnionWriteAt(s, o) ==
  /\ o + Len(s) <= MaxULen
  /\ uoff + Len(s) <= MaxULen
  /\ ulayer' = [ulayer EXCEPT !.data = PutAt(@, o, s)]
  /\ ubase' = [data |-> PutAt(ubase.data, o, s), pos |-> uoff]
  /\ uoff' = uoff + Len(s)
  /\ UNCHANGED <<ufailed, cvars, zvars, gvars, lvars>>

UnionTruncate(size) ==
  /\ ulayer' = [ulayer EXCEPT !.data = Resize(@, size)]
  /\ ubase' = [data |-> Resize(ubase.data, size), pos |-> uoff]
  /\ uoff' = ulayer.pos
  /\ UNCHANGED <<ufailed, cvars, zvars, gvars, lvars>>

\* WriteString writes the bytes of the string
UnionWriteString(s) ==
  /\ ulayer.pos + Len(s) <= MaxULen
  /\ uoff + Len(s) <= MaxULen
  /\ ulayer' = FileWriteAtPos(ulayer, s)
  /\ ubase' = FileWriteAtPos([ubase EXCEPT !.pos = uoff], s)
  /\ uoff' = uoff + Len(s)
  /\ UNCHANGED <<ufailed, cvars, zvars, gvars, lvars>>

NoUnion == NewUnionFile([data |-> <<>>, pos |-> 0], [data |-> <<>>, pos |-> 0])
\* ------------------------------------------------------- concurrent callers
\* Callers run Open, Close and Rename side by side, one statement group at a
\* time.  A cacheFile is an object of the heap that callers and index nodes
\* point to: pointer 0 is nil, and a free object reads NilInfo.  A node of the
\* sorted set keeps the key and the score it was added with and the pointer.
\* The base tier holds every path; the clock is now, the capacity cacheSize.
MaxCallers == 2
MaxCalls == 2
MaxPtrs == 4

Callers == 1..MaxCallers
Ptrs == 1..MaxPtrs

\* the rest of the cache overlay's variables, which the concurrent callers leave alone
cidle == <<currSize, files, base, cache, dirs, cacheindex, handles, crashed, evicted, budget, ghosts,
           written, removed, cacheTime>>

NoLocal == [name |-> "", newname |-> "", info |-> 0, file |-> 0, ret |-> "idle"]
NilNode == [key |-> "", score |-> 0, value |-> 0]

\* files.GetByKey
GetByKey(nodes, key) == IF \E n \in nodes : n.key = key THEN CHOOSE n \in nodes : n.key = key ELSE NilNode

\* files.PopMin: the node of the least score, of the least key among equal scores
NodeMin(nodes) ==
  CHOOSE n \in nodes : \A m \in nodes :
    \/ n.score < m.score
    \/ n.score = m.score /\ PathRank(n.key) <= PathRank(m.key)

\* files.AddOrUpdate(info.Path, SCORE(info.LastAccessTime), info)
NodeAddOrUpdate(nodes, h, q) ==
  {n \in nodes : n.key # h[q].Path} \cup {[key |-> h[q].Path, score |-> h[q].LastAccessTime, value |-> q]}

\* &cacheFile{...}: the first free object
NewPtr(h) == CHOOSE q \in Ptrs : h[q] = NilInfo /\ \A r \in Ptrs : h[r] = NilInfo => q <= r

\* caller c is at statement at, and no caller has panicked
Running(c, at) == pc[c] = at /\ \A d \in Callers : pc[d] # "panic"

\* the statements that call a tier
IOSteps == {"open.status", "opened", "add.remove", "rename.io"}

\* Open as far as getCacheFile returns: the lookup, under the lock
LOpen(c, p) ==
  /\ Running(c, "idle")
  /\ lbudget > 0
  /\ cacheL = 0
  /\ LET info == GetByKey(lfiles, p).value
     IN /\ local' = [local EXCEPT ![c] = [NoLocal EXCEPT !.name = p, !.info = info, !.ret = "open.status"]]
        /\ pc' = [pc EXCEPT ![c] = IF info # 0 THEN "remove.lock" ELSE "open.status"]
  /\ lbudget' = lbudget - 1
  /\ UNCHANGED <<cacheL, heap, lfiles, lcurrSize, lcache, now, cacheSize, cidle, zvars, gvars, uvars>>

\* removeFromCache: cacheL.Lock()
LRemoveLock(c) ==
  /\ Running(c, "remove.lock")
  /\ cacheL = 0
  /\ cacheL' = c
  /\ pc' = [pc EXCEPT ![c] = "remove.node"]
  /\ UNCHANGED <<local, heap, lfiles, lcurrSize, lcache, lbudget, now, cacheSize, cidle, zvars, gvars, uvars>>

\* removeFromCache: the node leaves the set, its object's Size leaves currSize; the lock is released
LRemoveNode(c) ==
  LET node == GetByKey(lfiles, local[c].name)
  IN /\ Running(c, "remove.node")
     /\ lfiles' = lfiles \ {node}
     /\ lcurrSize' = IF node # NilNode THEN lcurrSize - heap[node.value].Size ELSE lcurrSize
     /\ cacheL' = 0
     /\ pc' = [pc EXCEPT ![c] = local[c].ret]
     /\ UNCHANGED <<local, heap, lcache, lbudget, now, cacheSize, cidle, zvars, gvars, uvars>>

\* Open from cacheStatus on: a path the cache tier lacks is copied from the
\* base, size bytes at time t, and gets a new object; then the tiers' opens
LOpenStatus(c, size, t) ==
  LET name == local[c].name
      q == NewPtr(heap)
  IN /\ Running(c, "open.status")
     /\ IF name \in lcache
        THEN UNCHANGED <<local, heap, lcache, now>>
        ELSE /\ \E r \in Ptrs : heap[r] = NilInfo
             /\ heap' = [heap EXCEPT ![q] = cacheFile(name, size, UnixMicro(t))]
             /\ local' = [local EXCEPT ![c].info = q]
             /\ lcache' = lcache \cup {name}
             /\ now' = t
     /\ pc' = [pc EXCEPT ![c] = "opened"]
     /\ UNCHANGED <<cacheL, lfiles, lcurrSize, lbudget, cacheSize, cidle, zvars, gvars, uvars>>

\* Close as far as the call of addToCache: Sync, Stat and the closes, then
\* the object gets the size of the base file and the time
LClose(c, size, t) ==
  LET info == local[c].info
  IN /\ Running(c, "opened")
     /\ IF info = 0
        THEN /\ pc' = [pc EXCEPT ![c] = "idle"]
             /\ UNCHANGED <<local, heap, now>>
        ELSE /\ heap' = [heap EXCEPT ![info].Size = size, ![info].LastAccessTime = UnixMicro(t)]
             /\ now' = t
             /\ local' = [local EXCEPT ![c].ret = "idle"]
             /\ pc' = [pc EXCEPT ![c] = "add.lock"]
     /\ UNCHANGED <<cacheL, lfiles, lcurrSize, lcache, lbudget, cacheSize, cidle, zvars, gvars, uvars>>

\* addToCache: cacheL.Lock()
LAddLock(c) ==
  /\ Running(c, "add.lock")
  /\ cacheL = 0
  /\ cacheL' = c
  /\ pc' = [pc EXCEPT ![c] = "add.node"]
  /\ UNCHANGED <<local, heap, lfiles, lcurrSize, lcache, lbudget, now, cacheSize, cidle, zvars, gvars, uvars>>

\* addToCache: the Size of the object of the node of info.Path leaves currSize
LAddNode(c) ==
  LET node == GetByKey(lfiles, heap[local[c].info].Path)
  IN /\ Running(c, "add.node")
     /\ lcurrSize' = IF node # NilNode THEN lcurrSize - heap[node.value].Size ELSE lcurrSize
     /\ pc' = [pc EXCEPT ![c] = "add.loop"]
     /\ UNCHANGED <<cacheL, local, heap, lfiles, lcache, lbudget, now, cacheSize, cidle, zvars, gvars, uvars>>

\* addToCache: the test of the loop; PopMin where it holds, and where it does
\* not AddOrUpdate, the new currSize and the deferred Unlock
LAddLoop(c) ==
  LET info == local[c].info
  IN /\ Running(c, "add.loop")
     /\ IF lcurrSize > 0 /\ lcurrSize + heap[info].Size > cacheSize
        THEN IF lfiles = {}
             THEN /\ pc' = [pc EXCEPT ![c] = "panic"]
                  /\ UNCHANGED <<cacheL, local, lfiles, lcurrSize>>
             ELSE /\ lfiles' = lfiles \ {NodeMin(lfiles)}
                  /\ local' = [local EXCEPT ![c].file = NodeMin(lfiles).value]
                  /\ pc' = [pc EXCEPT ![c] = "add.remove"]
                  /\ UNCHANGED <<cacheL, lcurrSize>>
        ELSE /\ lfiles' = NodeAddOrUpdate(lfiles, heap, info)
             /\ lcurrSize' = lcurrSize + heap[info].Size
             /\ cacheL' = 0
             /\ pc' = [pc EXCEPT ![c] = local[c].ret]
             /\ UNCHANGED local
     /\ UNCHANGED <<heap, lcache, lbudget, now, cacheSize, cidle, zvars, gvars, uvars>>

\* addToCache: cache.Remove of the victim's file, then its Size leaves currSize
LAddRemove(c) ==
  LET file == local[c].file
  IN /\ Running(c, "add.remove")
     /\ lcache' = lcache \ {heap[file].Path}
     /\ lcurrSize' = lcurrSize - heap[file].Size
     /\ pc' = [pc EXCEPT ![c] = "add.loop"]
     /\ UNCHANGED <<cacheL, local, heap, lfiles, lbudget, now, cacheSize, cidle, zvars, gvars, uvars>>

\* Rename as far as getCacheFile returns: Exists on the cache tier, then the
\* lookup under the lock; base.Rename alone where the cache tier lacks oldname
LRename(c, oldname, newname) ==
  /\ Running(c, "idle")
  /\ lbudget > 0
  /\ oldname # newname
  /\ lbudget' = lbudget - 1
  /\ IF oldname \in lcache
     THEN /\ cacheL = 0
          /\ local' = [local EXCEPT ![c] = [NoLocal EXCEPT !.name = oldname, !.newname = newname,
                                                           !.info = GetByKey(lfiles, oldname).value,
                                                           !.ret = "rename.path"]]
          /\ pc' = [pc EXCEPT ![c] = "remove.lock"]
     ELSE UNCHANGED <<local, pc>>
  /\ UNCHANGED <<cacheL, heap, lfiles, lcurrSize, lcache, now, cacheSize, cidle, zvars, gvars, uvars>>

\* Rename: info.Path = newname, a nil dereference where the lookup found nothing
LRenamePath(c) ==
  LET info == local[c].info
  IN /\ Running(c, "rename.path")
     /\ IF info = 0
        THEN /\ pc' = [pc EXCEPT ![c] = "panic"]
             /\ UNCHANGED <<local, heap>>
        ELSE /\ heap' = [heap EXCEPT ![info].Path = local[c].newname]
             /\ local' = [local EXCEPT ![c].ret = "rename.io"]
             /\ pc' = [pc EXCEPT ![c] = "add.lock"]
     /\ UNCHANGED <<cacheL, lfiles, lcurrSize, lcache, lbudget, now, cacheSize, cidle, zvars, gvars, uvars>>

\* Rename: cache.Rename, which fails where the file is gone, and base.Rename
LRenameIO(c) ==
  /\ Running(c, "rename.io")
  /\ lcache' = IF local[c].name \in lcache THEN (lcache \ {local[c].name}) \cup {local[c].newname} ELSE lcache
  /\ pc' = [pc EXCEPT ![c] = "idle"]
  /\ UNCHANGED <<cacheL, local, heap, lfiles, lcurrSize, lbudget, now, cacheSize, cidle, zvars, gvars, uvars>>

NoLock ==
  /\ cacheL = 0
  /\ pc = [c \in Callers |-> "idle"]
  /\ local = [c \in Callers |-> NoLocal]
  /\ heap = [q \in Ptrs |-> NilInfo]
  /\ lfiles = {}
  /\ lcurrSize = 0
  /\ lcache = {}
  /\ lbudget = 0
\* --------------------------------------------- Init of the side specifications
\* none of the eviction walk, the UnionFile and the concurrent callers in use
NoSide == NoWalk /\ NoUnion /\ NoLock

\* the cache overlay not in use
NoCache ==
  /\ cacheSize = 1
  /\ currSize = 0
  /\ files = {}
  /\ base = EmptyFs
  /\ cache = EmptyFs
  /\ dirs = NoDirs
  /\ cacheindex = NoIndex
  /\ cacheTime = 0
  /\ handles = [k \in Slots |-> NoHandle]
  /\ now = 0
  /\ crashed = FALSE
  /\ evicted = <<>>
  /\ budget = 0
  /\ ghosts = {}
  /\ written = [p \in Paths |-> NoWrite]
  /\ removed = [p \in Paths |-> "no"]

\* any tree, no victim yet
InitWalkDirs ==
  /\ NoCache /\ NoZst /\ NoUnion /\ NoLock
  /\ tree \in Trees
  /\ victim = NoVictim

NextWalkDirs == \E v \in GFiles : EvictVictim(v)

SpecWalkDirs == InitWalkDirs /\ [][NextWalkDirs]_vars

\* a UnionFile over two files of the same content and position
InitUnion ==
  /\ NoCache /\ NoZst /\ NoWalk /\ NoLock
  /\ \E data \in UContents, pos \in 0..MaxULen :
       /\ pos <= Len(data)
       /\ NewUnionFile([data |-> data, pos |-> pos], [data |-> data, pos |-> pos])

NextUnion ==
  \/ \E m \in 1..MaxULen : UnionRead(m)
  \/ \E m \in 1..MaxULen, o \in 0..MaxULen : UnionReadAt(m, o)
  \/ \E o \in 0..MaxULen, w \in Whences : UnionSeek(o, w)
  \/ \E s \in UContents \ {<<>>} : UnionWrite(s)
  \/ \E s \in UContents \ {<<>>}, o \in 0..MaxULen : UnionWriteAt(s, o)
  \/ \E size \in 0..MaxULen : UnionTruncate(size)
  \/ \E s \in UContents \ {<<>>} : UnionWriteString(s)

SpecUnion == InitUnion /\ [][NextUnion]_vars

\* The index as the constructor leaves it: an entry of one byte for every file
\* of the cache tier, which holds any of the root paths.
InitLock ==
  /\ NoCache /\ NoZst /\ NoWalk /\ NoUnion
  /\ cacheL = 0
  /\ pc = [c \in Callers |-> "idle"]
  /\ local = [c \in Callers |-> NoLocal]
  /\ lcache \in SUBSET RootPaths
  /\ heap = [q \in Ptrs |-> IF q <= Len(PathSeq) /\ PathSeq[q] \in lcache
                            THEN cacheFile(PathSeq[q], 1, 0) ELSE NilInfo]
  /\ lfiles = {[key |-> p, score |-> 0, value |-> PathRank(p)] : p \in lcache}
  /\ lcurrSize = Cardinality(lcache)
  /\ lbudget = MaxCalls

LStep(c) ==
  \/ \E p \in RootPaths : LOpen(c, p)
  \/ LRemoveLock(c)
  \/ LRemoveNode(c)
  \/ \E size \in 1..MaxLen, t \in now..MaxTime : LOpenStatus(c, size, t)
  \/ \E size \in 1..MaxLen, t \in now..MaxTime : LClose(c, size, t)
  \/ LAddLock(c)
  \/ LAddNode(c)
  \/ LAddLoop(c)
  \/ LAddRemove(c)
  \/ \E oldname, newname \in RootPaths : LRename(c, oldname, newname)
  \/ LRenamePath(c)
  \/ LRenameIO(c)

NextLock == \E c \in Callers : LStep(c)

SpecLock == InitLock /\ [][NextLock]_vars

\* ------------------------------------------------------------------- Init
Init ==
  /\ cacheSize \in 1..MaxCacheSize
  /\ currSize = 0
  /\ files = {}
  /\ base = EmptyFs
  /\ cache = EmptyFs
  /\ dirs = NoDirs
  /\ cacheindex = NoIndex
  /\ cacheTime = 0
  /\ NoZst
  /\ NoSide
  /\ handles = [k \in Slots |-> NoHandle]
  /\ now = 0
  /\ crashed = FALSE
  /\ evicted = <<>>
  /\ budget = MaxOpens
  /\ ghosts = {}
  /\ written = [p \in Paths |-> NoWrite]
  /\ removed = [p \in Paths |-> "no"]

\* SizeCacheFS.Create
Create(p) ==
  /\ CanOpen
  /\ budget' = budget - 1
  /\ LET bf == [FsCreate(base, Slot, p) EXCEPT !.fs = Touch(@, PathRank(p), now)]
         lf == [FsCreate(cache, Slot, p) EXCEPT !.fs = Touch(@, PathRank(p), now)]
         r == removeFromCache(files, currSize, p)
     IN IF ~HasDir(dirs.base, p)
        THEN UNCHANGED <<base, cache, files, currSize, handles, written, removed>>
        ELSE IF ~HasDir(dirs.cache, p)
        THEN /\ base' = FsCloseFile(bf.fs, Slot)
             /\ written' = Record("written", written, Invalidate(written, {p}, 0))
             /\ removed' = Record("removed", removed, [removed EXCEPT ![p] = "no"])
             /\ UNCHANGED <<cache, files, currSize, handles>>
        ELSE /\ base' = bf.fs
             /\ cache' = lf.fs
             /\ files' = r.files
             /\ currSize' = r.currSize
             /\ handles' = [handles EXCEPT ![Slot] =
                    [open |-> TRUE, name |-> p, flag |-> CreateFlag, info |-> p, off |-> 0,
                     hasBase |-> TRUE]]
             /\ written' = Record("written", written, Invalidate(written, {p}, Slot))
             /\ removed' = Record("removed", removed, [removed EXCEPT ![p] = "no"])
  /\ evicted' = <<>>
  /\ UNCHANGED <<svars, zvars, cacheTime, cacheSize, cacheindex, dirs, now, crashed, ghosts>>

\* SizeCacheFS.OpenFile
OpenFile(p, flag) ==
  /\ CanOpen
  /\ budget' = budget - 1
  /\ now' \in statusClock(p)
  /\ LET k == Slot
         r == removeFromCache(files, currSize, p)
         st == cacheStatus(cache, base, p, now')
         exists == FsExists(base, p)
         copy == st \in {"cacheMiss", "cacheStale"} /\ exists
         c1 == IF copy THEN copyToCache(cache, base, p) ELSE cache
         info == IF st \in {"cacheHit", "cacheLocal"} THEN getCacheFile(files, p).Path ELSE p
         tr(f) == IF f.err = "nil" /\ "O_TRUNC" \in flag
                  THEN [f EXCEPT !.fs = Touch(@, @.refs[k], now)] ELSE f
         bfi == tr(FsOpenFile(base, k, p, flag))
         lfi == tr(FsOpenFile(c1, k, p, cacheFlagOf(flag)))
     IN /\ files' = r.files
        /\ currSize' = r.currSize
        /\ dirs' = IF copy THEN [dirs EXCEPT !.cache = copyToCacheDirs(@, p)] ELSE dirs
        /\ IF bfi.err # "nil"
           THEN /\ base' = base
                /\ cache' = c1
                /\ handles' = handles
                /\ written' = written
           ELSE IF lfi.err # "nil"
           THEN /\ base' = FsCloseFile(bfi.fs, k)
                /\ cache' = c1
                /\ handles' = handles
                /\ written' = IF ~exists \/ "O_TRUNC" \in flag
                              THEN Record("written", written, Invalidate(written, {p}, 0))
                              ELSE written
           ELSE /\ base' = bfi.fs
                /\ cache' = lfi.fs
                /\ handles' = [handles EXCEPT ![k] =
                      [open |-> TRUE, name |-> p, flag |-> flag, info |-> info, off |-> 0,
                       hasBase |-> TRUE]]
                /\ written' = IF ~exists \/ "O_TRUNC" \in flag
                              THEN Record("written", written, Invalidate(written, {p}, k))
                              ELSE written
  /\ evicted' = <<>>
  /\ UNCHANGED <<svars, zvars, cacheTime, cacheSize, cacheindex, crashed, ghosts, removed>>

\* SizeCacheFS.Open
Open(p) ==
  /\ CanOpen
  /\ budget' = budget - 1
  /\ now' \in statusClock(p)
  /\ LET k == Slot
         r == removeFromCache(files, currSize, p)
         st == cacheStatus(cache, base, p, now')
         bst == FsStat(base, p)
         copy == (st = "cacheMiss" /\ bst.err = "nil") \/ st = "cacheStale"
         c1 == IF copy THEN copyToCache(cache, base, p) ELSE cache
         info == IF st \in {"cacheHit", "cacheLocal"} THEN getCacheFile(files, p).Path ELSE p
         bfile == FsOpen(base, k, p)
         lfile == FsOpen(c1, k, p)
     IN /\ files' = r.files
        /\ currSize' = r.currSize
        /\ dirs' = IF copy THEN [dirs EXCEPT !.cache = copyToCacheDirs(@, p)] ELSE dirs
        /\ IF st = "cacheMiss" /\ bst.err # "nil"
           THEN /\ UNCHANGED <<base, cache, handles>>
           ELSE /\ base' = bfile.fs
                /\ cache' = lfile.fs
                /\ handles' = [handles EXCEPT ![k] =
                      [open |-> TRUE, name |-> p, flag |-> O_RDONLY, info |-> info, off |-> 0,
                       hasBase |-> bfile.err = "nil"]]
  /\ evicted' = <<>>
  /\ UNCHANGED <<svars, zvars, cacheTime, cacheSize, cacheindex, crashed, ghosts, written, removed>>

\* one byte written at offset off
WriteAtOff(data, off, byte) ==
  [i \in 1..(IF off + 1 > Len(data) THEN off + 1 ELSE Len(data)) |->
      IF i = off + 1 THEN byte ELSE IF i <= Len(data) THEN data[i] ELSE 0]

\* SizeCacheFile.Write of one byte
Write(k, byte) ==
  /\ ~crashed
  /\ handles[k].open
  /\ LET h == handles[k]
         data == FileData(cache, k)
         off == IF "O_APPEND" \in h.flag THEN Len(data) ELSE h.off
     IN /\ h.flag # O_RDONLY
        /\ off + 1 <= MaxLen
        /\ cache' = Touch([cache EXCEPT !.data[cache.refs[k]] = WriteAtOff(data, off, byte)],
                          cache.refs[k], now)
        \* the offset of an append-mode file is never read: every write goes to the end
        /\ handles' = [handles EXCEPT ![k].off = IF "O_APPEND" \in h.flag THEN 0 ELSE off + 1]
        /\ written' = Record("written", written, Invalidate(written, PathsOf(k), k))
  /\ evicted' = <<>>
  /\ UNCHANGED <<svars, zvars, cacheTime, cacheSize, cacheindex, currSize, files, base, dirs, now, crashed, budget, ghosts, removed>>

\* Sync writing the cache file's bytes after those the base file has
SyncAppending(bfs, cfs, k, flag) ==
  IF flag = O_RDONLY THEN bfs
  ELSE [bfs EXCEPT !.data[bfs.refs[k]] = @ \o FileData(cfs, k)]

\* SizeCacheFile.Sync: the base file becomes a copy of the cache file
Sync(bfs, cfs, k, flag) ==
  IF flag = O_RDONLY THEN bfs
  ELSE [bfs EXCEPT !.data[bfs.refs[k]] = FileData(cfs, k)]

\* SizeCacheFile.Close
Close(k) ==
  /\ ~crashed
  /\ handles[k].open
  /\ handles[k].hasBase
  /\ base.refs[k] # 0
  \* time.Now() is read when the handle carries an entry
  /\ now' \in IF handles[k].info # "" THEN now..MaxTime ELSE {now}
  /\ LET h == handles[k]
         b1 == IF h.flag = O_RDONLY THEN base
               ELSE Touch(Sync(base, cache, k, h.flag), base.refs[k], now')
         fstatSize == Len(FileData(b1, k))
         info == cacheFile(h.info, fstatSize, UnixMicro(now'))
         c1 == FsChtimes(FsCloseFile(cache, k), h.name, b1.mtime[b1.refs[k]])
         r == IF h.info # ""
              THEN addToCache(files, currSize, c1, info)
              ELSE [files |-> files, currSize |-> currSize, cache |-> c1,
                    victims |-> <<>>, panic |-> FALSE]
     IN /\ handles' = [handles EXCEPT ![k] = NoHandle]
        /\ base' = FsCloseFile(b1, k)
        /\ cache' = r.cache
        /\ dirs' = [dirs EXCEPT !.cache = removeEmptyParents(@, r.cache, r.victims)]
        /\ files' = r.files
        /\ currSize' = r.currSize
        /\ evicted' = r.victims
        /\ crashed' = r.panic
        /\ written' = Record("written", written,
               [p \in Paths |->
                  IF written[p].by # k THEN written[p]
                  ELSE IF h.flag # O_RDONLY /\ base.names[p] = base.refs[k]
                       THEN [valid |-> TRUE, data |-> FileData(b1, k), by |-> 0]
                       ELSE NoWrite])
  /\ UNCHANGED <<svars, zvars, cacheTime, cacheSize, cacheindex, budget, ghosts, removed>>

\* SizeCacheFile.Close of a handle whose Base is nil: Base.Stat is called on it
CloseNilBase(k) ==
  /\ ~crashed
  /\ handles[k].open
  /\ ~handles[k].hasBase
  /\ crashed' = TRUE
  /\ evicted' = <<>>
  /\ UNCHANGED <<svars, zvars, cacheTime, cacheSize, cacheindex, currSize, files, base, cache, dirs,
                 handles, now, budget, ghosts, written, removed>>

\* SizeCacheFile.Sync called on the handle of slot k: Base is truncated and
\* written from its start with the bytes of Cache, read from its start, and
\* the offset of Cache is set to idx, where it was
FileSync(k) ==
  /\ ~crashed
  /\ handles[k].open
  /\ handles[k].flag # O_RDONLY => handles[k].hasBase /\ base.refs[k] # 0
  /\ LET h == handles[k]
         idx == h.off
         copied == [h EXCEPT !.off = Len(FileData(cache, k))]
     IN /\ base' = IF h.flag = O_RDONLY THEN base
                   ELSE Touch(Sync(base, cache, k, h.flag), base.refs[k], now)
        /\ handles' = IF h.flag = O_RDONLY THEN handles
                      ELSE [handles EXCEPT ![k] = [copied EXCEPT !.off = idx]]
        /\ written' = Record("written", written,
               [p \in Paths |->
                  IF h.flag # O_RDONLY /\ written[p].by = k /\ base.names[p] = base.refs[k]
                  THEN [valid |-> TRUE, data |-> FileData(cache, k), by |-> 0]
                  ELSE written[p]])
  /\ evicted' = <<>>
  /\ UNCHANGED <<svars, zvars, cacheTime, cacheSize, cacheindex, currSize, files, cache, dirs, now,
                 crashed, budget, ghosts, removed>>

\* Remove wrapping the base tier's error in one of its own
RemoveErrWrapped(p) ==
  IF FsRemove(base, p).err = "nil" THEN "nil" ELSE "error removing base file"

\* the error SizeCacheFS.Remove returns in the current state: the base tier's, as it is
RemoveErr(p) == FsRemove(base, p).err

\* SizeCacheFS.Remove
Remove(p) ==
  /\ ~crashed
  /\ LET exists == FsExists(cache, p)
         r == IF exists THEN removeFromCache(files, currSize, p)
              ELSE [files |-> files, currSize |-> currSize]
         br == FsRemove(base, p)
     IN /\ cache' = IF exists THEN FsRemove(cache, p).fs ELSE cache
        /\ files' = r.files
        /\ currSize' = r.currSize
        /\ base' = br.fs
        /\ removed' = Record("removed", removed, [removed EXCEPT ![p] =
               IF RemoveErr(p) = "nil"
               THEN IF ~exists THEN "uncached"
                    ELSE IF getCacheFile(files, p) # NilInfo THEN "cached" ELSE "detached"
               ELSE IF @ = "no" THEN "no" ELSE "again"])
  /\ written' = Record("written", written, Invalidate(written, {p}, 0))
  /\ evicted' = <<>>
  /\ UNCHANGED <<svars, zvars, cacheTime, cacheSize, cacheindex, dirs, handles, now, crashed, budget, ghosts>>

\* SizeCacheFS.Stat: what a call returns in the current state
Stat(p) == FsStat(base, p)

\* os.Rename into a directory ds of the tier that may be missing
FsRenameIn(fs, ds, old, new) ==
  IF FsExists(fs, old) /\ ~HasDir(ds, new)
  THEN [err |-> "ErrNotExist", fs |-> fs]
  ELSE FsRename(fs, old, new)

\* the part of Rename that is run when the cache tier has oldname
RenameCache(oldname, newname) ==
  LET info == getCacheFile(files, oldname)
      r0 == removeFromCache(files, currSize, oldname)
      r == addToCache(r0.files, r0.currSize, cache,
                      cacheFile(newname, info.Size, info.LastAccessTime))
      cds == removeEmptyParents(dirs.cache, r.cache, r.victims)
      cr == FsRenameIn(r.cache, cds, oldname, newname)
  IN [panic |-> info = NilInfo \/ r.panic, files |-> r.files, currSize |-> r.currSize,
      cache |-> cr.fs, cdirs |-> cds, victims |-> r.victims, err |-> cr.err]

\* the error SizeCacheFS.Rename returns in the current state, where it returns
RenameErr(oldname, newname) ==
  IF FsExists(cache, oldname) /\ RenameCache(oldname, newname).err # "nil"
  THEN RenameCache(oldname, newname).err
  ELSE FsRenameIn(base, dirs.base, oldname, newname).err

\* SizeCacheFS.Rename
Rename(oldname, newname) ==
  /\ ~crashed
  /\ oldname # newname
  /\ LET exists == FsExists(cache, oldname)
         c == RenameCache(oldname, newname)
         br == FsRenameIn(base, dirs.base, oldname, newname)
     IN IF ~exists
        THEN /\ base' = br.fs
             /\ evicted' = <<>>
             /\ UNCHANGED <<cache, dirs, files, currSize, crashed>>
        ELSE IF c.panic
        THEN /\ crashed' = TRUE
             /\ evicted' = <<>>
             /\ UNCHANGED <<base, cache, dirs, files, currSize>>
        ELSE /\ files' = c.files
             /\ currSize' = c.currSize
             /\ cache' = c.cache
             /\ dirs' = [dirs EXCEPT !.cache = c.cdirs]
             /\ base' = IF c.err = "nil" THEN br.fs ELSE base
             /\ evicted' = c.victims
             /\ crashed' = FALSE
  /\ written' = Record("written", written, Invalidate(written, {oldname, newname}, 0))
  /\ removed' = IF FsExists(base', newname)
                THEN Record("removed", removed, [removed EXCEPT ![newname] = "no"])
                ELSE removed
  /\ UNCHANGED <<svars, zvars, cacheTime, cacheSize, cacheindex, handles, now, budget, ghosts>>

\* SizeCacheFS.MkdirAll
MkdirAll(d) ==
  /\ ~crashed
  /\ dirs' = [base |-> FsMkdirAll(dirs.base, d), cache |-> FsMkdirAll(dirs.cache, d)]
  /\ evicted' = <<>>
  /\ UNCHANGED <<svars, zvars, cacheTime, cacheSize, cacheindex, currSize, files, base, cache, handles, now, crashed,
                 budget, ghosts, written, removed>>

\* the walk of RemoveAll: Remove for every file of the cache tier at or below
\* name, in lexical order, until one returns an error
RECURSIVE removeAllWalk(_, _)
removeAllWalk(st, todo) ==
  IF todo = {} \/ st.err # "nil" THEN st
  ELSE LET p == CHOOSE x \in todo : \A y \in todo : PathRank(x) <= PathRank(y)
           r == removeFromCache(st.files, st.currSize, p)
           br == FsRemove(st.base, p)
       IN removeAllWalk([files |-> r.files, currSize |-> r.currSize,
                         cache |-> FsRemove(st.cache, p).fs,
                         base |-> br.fs, err |-> br.err], todo \ {p})

\* the state RemoveAll leaves and the error it returns
RemoveAllResult(name) ==
  LET exists == name \in dirs.cache \/ (name \in Paths /\ FsExists(cache, name))
      w == removeAllWalk([files |-> files, currSize |-> currSize, cache |-> cache,
                          base |-> base, err |-> "nil"],
                         IF exists THEN {p \in Under(name) : FsExists(cache, p)} ELSE {})
  IN IF w.err # "nil"
     THEN [files |-> w.files, currSize |-> w.currSize, cache |-> w.cache,
           base |-> w.base, dirs |-> dirs, err |-> w.err]
     ELSE [files |-> w.files, currSize |-> w.currSize,
           cache |-> FsRemoveAll(w.cache, name),
           base |-> FsRemoveAll(w.base, name),
           dirs |-> [base |-> dirs.base \ DirsUnder(name),
                     cache |-> dirs.cache \ DirsUnder(name)],
           err |-> "nil"]

\* SizeCacheFS.RemoveAll
RemoveAll(name) ==
  /\ ~crashed
  /\ LET r == RemoveAllResult(name)
     IN /\ files' = r.files
        /\ currSize' = r.currSize
        /\ cache' = r.cache
        /\ base' = r.base
        /\ dirs' = r.dirs
  /\ evicted' = <<>>
  /\ UNCHANGED <<svars, zvars, cacheTime, cacheSize, cacheindex, handles, now, crashed, budget, ghosts, written, removed>>

\* a client that keeps to the files of the root directory
Next ==
  \/ \E p \in RootPaths : Create(p)
  \/ \E p \in RootPaths, flag \in OpenFlags : OpenFile(p, flag)
  \/ \E p \in RootPaths : Open(p)
  \/ \E k \in Slots, byte \in Bytes : Write(k, byte)
  \/ \E k \in Slots : Close(k)
  \/ \E p \in RootPaths : Remove(p)
  \/ \E p, q \in RootPaths : Rename(p, q)

Spec == Init /\ [][Next]_vars

\* json.Marshal of the entries in the order of GetByScoreRange: one object
\* with the fields Path, Size and LastAccessTime for each
RECURSIVE Marshal(_)
Marshal(fl) ==
  IF fl = {} THEN <<>>
  ELSE <<[Path |-> PopMin(fl).Path, Size |-> PopMin(fl).Size,
          LastAccessTime |-> PopMin(fl).LastAccessTime]>> \o Marshal(fl \ {PopMin(fl)})

\* SizeCacheFS.Close: the index is written to .cacheindex
SizeCacheFSClose ==
  /\ ~crashed
  /\ cacheindex' = [state |-> "json", doc |-> Marshal(files)]
  /\ evicted' = <<>>
  /\ UNCHANGED <<svars, zvars, cacheTime, cacheSize, currSize, files, base, cache, dirs, handles, now, crashed,
                 budget, ghosts, written, removed>>

\* SizeCacheFS.Close where WriteFile fails after it has truncated the file
SizeCacheFSCloseTorn ==
  /\ ~crashed
  /\ cacheindex' = TornIndex
  /\ evicted' = <<>>
  /\ UNCHANGED <<svars, zvars, cacheTime, cacheSize, currSize, files, base, cache, dirs, handles, now, crashed,
                 budget, ghosts, written, removed>>

\* json.Unmarshal into a []*cacheFile
Unmarshal(ci) ==
  IF ci.state = "json"
  THEN [err |-> "nil",
        files |-> [i \in 1..Len(ci.doc) |->
                     cacheFile(ci.doc[i].Path, ci.doc[i].Size, ci.doc[i].LastAccessTime)]]
  ELSE [err |-> "error unmarshalling files", files |-> <<>>]

\* the walk stamping its entries in microseconds, as Close stamps them
walkIndexMicro(cfs, ps) ==
  [i \in 1..Cardinality(ps) |->
     LET p == CHOOSE x \in ps : Cardinality({y \in ps : PathRank(y) <= PathRank(x)}) = i
     IN cacheFile(p, FsStat(cfs, p).size, UnixMicro(cfs.mtime[cfs.names[p]]))]

\* the walk of the constructor over the cache tier, in lexical order: an entry
\* for every file, stamped with its modification time in milliseconds
RECURSIVE walkIndex(_, _)
walkIndex(cfs, ps) ==
  IF ps = {} THEN <<>>
  ELSE LET p == CHOOSE x \in ps : \A y \in ps : PathRank(x) <= PathRank(y)
       IN <<cacheFile(p, FsStat(cfs, p).size, UnixMilli(cfs.mtime[cfs.names[p]]))>>
          \o walkIndex(cfs, ps \ {p})

\* the loop of the constructor over the entries it has found
RECURSIVE buildIndex(_, _)
buildIndex(st, list) ==
  IF list = <<>> THEN st
  ELSE buildIndex([files |-> AddOrUpdate(st.files, Head(list)),
                   currSize |-> st.currSize + Head(list).Size], Tail(list))

\* what NewSizeCacheFS returns on the two tiers as they are
NewSizeCacheFSResult ==
  LET exists == cacheindex.state # "absent"
      u == Unmarshal(cacheindex)
      list == IF exists THEN u.files
              ELSE walkIndex(cache, {p \in Paths : FsExists(cache, p)})
      st == buildIndex([files |-> {}, currSize |-> 0], list)
  IN IF exists /\ u.err # "nil"
     THEN [err |-> u.err, files |-> {}, currSize |-> 0]
     ELSE [err |-> "nil", files |-> st.files, currSize |-> st.currSize]

\* NewSizeCacheFS on the two tiers, with the capacity as before, once the
\* handles of the overlay before are closed; on an error there is no new overlay
NewSizeCacheFS ==
  /\ ~crashed
  /\ \A k \in Slots : ~handles[k].open
  /\ NewSizeCacheFSResult.err = "nil"
  /\ files' = NewSizeCacheFSResult.files
  /\ currSize' = NewSizeCacheFSResult.currSize
  /\ evicted' = <<>>
  /\ UNCHANGED <<svars, zvars, cacheTime, cacheSize, cacheindex, base, cache, dirs, handles, now, crashed,
                 budget, ghosts, written, removed>>

\* The same program with the removals recorded in the history variable removed.
InitRemoved ==
  /\ cacheSize \in 1..MaxCacheSize
  /\ currSize = 0
  /\ files = {}
  /\ base = EmptyFs
  /\ cache = EmptyFs
  /\ dirs = NoDirs
  /\ cacheindex = NoIndex
  /\ cacheTime = 0
  /\ NoZst
  /\ NoSide
  /\ handles = [k \in Slots |-> NoHandle]
  /\ now = 0
  /\ crashed = FALSE
  /\ evicted = <<>>
  /\ budget = MaxOpensRemoved
  /\ ghosts = {"removed"}
  /\ written = [p \in Paths |-> NoWrite]
  /\ removed = [p \in Paths |-> "no"]

SpecRemoved == InitRemoved /\ [][Next]_vars

\* The program with capacity 1 after Create(a), OpenFile(a, O_WRONLY|O_APPEND),
\* one byte written through the first handle, that handle closed, and then
\* Create(b), one byte written and the handle closed: the admission of b has
\* evicted a, whose cache file lives on unlinked under the append-mode handle.
\* PinnedState is a state that Spec reaches by these seven steps.
PinnedPath == PathSeq[1]
OtherPath == PathSeq[2]
PinnedSlot == MinOf(Slots \ {MinOf(Slots)})
PinnedHandles ==
  [k \in Slots |->
     IF k = PinnedSlot
     THEN [open |-> TRUE, name |-> PinnedPath, flag |-> {"O_WRONLY", "O_APPEND"},
           info |-> "", off |-> 0, hasBase |-> TRUE]
     ELSE NoHandle]
PinnedBase ==
  [names |-> [p \in Paths |-> IF p \in {PinnedPath, OtherPath} THEN PathRank(p) ELSE 0],
   data |-> [i \in Inodes |->
               IF i \in {PathRank(PinnedPath), PathRank(OtherPath)} THEN <<1>> ELSE <<>>],
   mtime |-> [i \in Inodes |-> 0],
   refs |-> [k \in Slots |-> IF k = PinnedSlot THEN PathRank(PinnedPath) ELSE 0]]
PinnedCache ==
  [names |-> [p \in Paths |-> IF p = OtherPath THEN PathRank(p) ELSE 0],
   data |-> [i \in Inodes |->
               IF i \in {PathRank(OtherPath), NumPaths + PinnedSlot} THEN <<1>> ELSE <<>>],
   mtime |-> [i \in Inodes |-> 0],
   refs |-> [k \in Slots |-> IF k = PinnedSlot THEN NumPaths + PinnedSlot ELSE 0]]

PinnedState ==
  /\ cacheSize = 1
  /\ currSize = 1
  /\ files = {cacheFile(OtherPath, 1, 0)}
  /\ base = PinnedBase
  /\ cache = PinnedCache
  /\ dirs = NoDirs
  /\ cacheindex = NoIndex
  /\ cacheTime = 0
  /\ NoZst
  /\ NoSide
  /\ handles = PinnedHandles
  /\ now = 0
  /\ crashed = FALSE
  /\ evicted = <<[victim |-> cacheFile(PinnedPath, 1, 0), rest |-> {}]>>

InitPinned ==
  /\ PinnedState
  /\ budget = MaxOpensPinned
  /\ ghosts = {"written"}
  /\ written = [p \in Paths |-> IF p \in {PinnedPath, OtherPath}
                                  THEN [valid |-> TRUE, data |-> <<1>>, by |-> 0]
                                  ELSE NoWrite]
  /\ removed = [p \in Paths |-> "no"]

SpecPinned == InitPinned /\ [][Next]_vars

\* The program of a client that makes directories and removes them with all
\* that is below them.
InitTree ==
  /\ cacheSize \in 1..MaxCacheSize
  /\ currSize = 0
  /\ files = {}
  /\ base = EmptyFs
  /\ cache = EmptyFs
  /\ dirs = NoDirs
  /\ cacheindex = NoIndex
  /\ cacheTime = 0
  /\ NoZst
  /\ NoSide
  /\ handles = [k \in Slots |-> NoHandle]
  /\ now = 0
  /\ crashed = FALSE
  /\ evicted = <<>>
  /\ budget = MaxOpensTree
  /\ ghosts = {}
  /\ written = [p \in Paths |-> NoWrite]
  /\ removed = [p \in Paths |-> "no"]

NextTree ==
  \/ \E p \in Paths : Create(p)
  \/ \E p \in Paths, flag \in OpenFlags : OpenFile(p, flag)
  \/ \E p \in Paths : Open(p)
  \/ \E k \in Slots, byte \in Bytes : Write(k, byte)
  \/ \E k \in Slots : Close(k)
  \/ \E p \in Paths : Remove(p)
  \/ \E p, q \in Paths : Rename(p, q)
  \/ \E d \in Dirs : MkdirAll(d)
  \/ \E d \in Dirs : RemoveAll(d)

SpecTree == InitTree /\ [][NextTree]_vars

\* The program of a client that only creates files, each path once, writes to
\* them and closes them.
NextDistinct ==
  \/ \E p \in Paths : ~FsExists(base, p) /\ Create(p)
  \/ \E k \in Slots, byte \in Bytes : Write(k, byte)
  \/ \E k \in Slots : Close(k)
  \/ \E d \in Dirs : MkdirAll(d)

SpecDistinct == Init /\ [][NextDistinct]_vars

\* The program on a cache tier where an overlay has been closed before (with an
\* empty index), with the overlay's Close and the constructor, after Create of
\* SavedPath twice: both slots hold the file open.  Spec reaches the same
\* overlay and tiers by these two steps.
SavedPath == PathSeq[1]
SavedHandles ==
  [k \in Slots |-> [open |-> TRUE, name |-> SavedPath, flag |-> CreateFlag,
                    info |-> SavedPath, off |-> 0, hasBase |-> TRUE]]
SavedFs ==
  [EmptyFs EXCEPT !.names[SavedPath] = PathRank(SavedPath),
                  !.refs = [k \in Slots |-> PathRank(SavedPath)]]

SavedState ==
  /\ currSize = 0
  /\ files = {}
  /\ base = SavedFs
  /\ cache = SavedFs
  /\ dirs = NoDirs
  /\ handles = SavedHandles
  /\ now = 0
  /\ crashed = FALSE
  /\ evicted = <<>>

InitSaved ==
  /\ cacheSize \in 1..MaxCacheSize
  /\ SavedState
  /\ cacheindex = [state |-> "json", doc |-> Marshal({})]
  /\ cacheTime = 0
  /\ NoZst
  /\ NoSide
  /\ budget = MaxOpensSaved
  /\ ghosts = {}
  /\ written = [p \in Paths |-> NoWrite]
  /\ removed = [p \in Paths |-> "no"]

NextSaved ==
  \/ Next
  \/ SizeCacheFSClose
  \/ SizeCacheFSCloseTorn
  \/ NewSizeCacheFS

SpecSaved == InitSaved /\ [][NextSaved]_vars

\* The program on a cache tier without .cacheindex, with the constructor; the
\* tiers keep the modification times.
InitWalk ==
  /\ cacheSize \in 1..MaxCacheSize
  /\ currSize = 0
  /\ files = {}
  /\ base = EmptyFs
  /\ cache = EmptyFs
  /\ dirs = NoDirs
  /\ cacheindex = NoIndex
  /\ cacheTime = 0
  /\ NoZst
  /\ NoSide
  /\ handles = [k \in Slots |-> NoHandle]
  /\ now = 0
  /\ crashed = FALSE
  /\ evicted = <<>>
  /\ budget = MaxOpensWalk
  /\ ghosts = {"mtime"}
  /\ written = [p \in Paths |-> NoWrite]
  /\ removed = [p \in Paths |-> "no"]

NextWalk ==
  \/ Next
  \/ NewSizeCacheFS

SpecWalk == InitWalk /\ [][NextWalk]_vars

\* the capacity the constructor keeps: a negative one is taken as 0
clampCacheSize(n) == IF n < 0 THEN 0 ELSE n

\* The program of an overlay constructed with capacity 0 or with a negative one.
InitZero ==
  /\ cacheSize \in {clampCacheSize(n) : n \in {0 - MaxCacheSize, 0}}
  /\ currSize = 0
  /\ files = {}
  /\ base = EmptyFs
  /\ cache = EmptyFs
  /\ dirs = NoDirs
  /\ cacheindex = NoIndex
  /\ cacheTime = 0
  /\ NoZst
  /\ NoSide
  /\ handles = [k \in Slots |-> NoHandle]
  /\ now = 0
  /\ crashed = FALSE
  /\ evicted = <<>>
  /\ budget = MaxOpensZero
  /\ ghosts = {}
  /\ written = [p \in Paths |-> NoWrite]
  /\ removed = [p \in Paths |-> "no"]

SpecZero == InitZero /\ [][Next]_vars

\* The compression overlay on a source without files, built from either of the
\* two Fs of the repository, with one handle at a time.
InitZst ==
  /\ cacheSize = 1
  /\ currSize = 0
  /\ files = {}
  /\ base = EmptyFs
  /\ cache = EmptyFs
  /\ dirs = NoDirs
  /\ cacheindex = NoIndex
  /\ cacheTime = 0
  /\ handles = [k \in Slots |-> NoHandle]
  /\ now = 0
  /\ crashed = FALSE
  /\ evicted = <<>>
  /\ budget = 0
  /\ ghosts = {}
  /\ written = [p \in Paths |-> NoWrite]
  /\ removed = [p \in Paths |-> "no"]
  /\ zfs \in {[source |-> [p \in ZPaths |-> ZAbsent], setsFlag |-> b] : b \in BOOLEAN}
  /\ zfile = NoZFile
  /\ zret = Called("NewFs", ZRet(0, "nil"))
  /\ NoSide

NextZst ==
  \/ \E name \in ZPaths : ZCreate(name)
  \/ \E name \in ZPaths : ZOpen(name)
  \/ \E name \in ZPaths, flag \in ZOpenFlags : ZOpenFile(name, flag)
  \/ \E n \in 1..(MaxZLen + 1), early \in BOOLEAN : ZRead(n, early)
  \/ \E offset \in (0 - 1)..(MaxZLen + 1), whence \in Whences, early \in BOOLEAN :
        ZSeek(offset, whence, early)
  \/ \E byte \in Bytes : ZWrite(byte)
  \/ \E n \in 1..MaxZLen, off \in 0..MaxZLen : ZReadAt(n, off)
  \/ \E byte \in Bytes, off \in 0..MaxZLen : ZWriteAt(byte, off)
  \/ \E size \in 0..MaxZLen : ZTruncate(size)
  \/ \E off \in 0..MaxZLen, len \in 1..MaxZLen : ZMmap(off, len)
  \/ ZClose

SpecZst == InitZst /\ [][NextZst]_vars

\* The program of an overlay constructed on two tiers that hold files already,
\* with a cacheTime or without: the constructor has walked the cache tier.
\* A tier holds each root path or not, with one byte and some modification time.
Ages == [RootPaths -> (0 - 1)..MaxTime]
TierOf(age) ==
  [names |-> [p \in Paths |-> IF p \in RootPaths /\ age[p] >= 0 THEN PathRank(p) ELSE 0],
   data |-> [i \in Inodes |->
               IF \E p \in RootPaths : PathRank(p) = i /\ age[p] >= 0 THEN <<1>> ELSE <<>>],
   mtime |-> [i \in Inodes |->
               IF \E p \in RootPaths : PathRank(p) = i /\ age[p] >= 0
               THEN age[CHOOSE p \in RootPaths : PathRank(p) = i] ELSE 0],
   refs |-> [k \in Slots |-> 0]]

InitStatus ==
  /\ cacheSize \in 1..MaxCacheSize
  /\ cacheTime \in {0, 1, NanosPerMilli}
  /\ base \in {TierOf(age) : age \in Ages}
  /\ cache \in {TierOf(age) : age \in Ages}
  /\ now \in 0..MaxTime
  /\ \A i \in Inodes : base.mtime[i] <= now /\ cache.mtime[i] <= now
  /\ LET st == buildIndex([files |-> {}, currSize |-> 0],
                          walkIndex(cache, {p \in Paths : FsExists(cache, p)}))
     IN files = st.files /\ currSize = st.currSize
  /\ dirs = NoDirs
  /\ cacheindex = NoIndex
  /\ NoZst
  /\ NoSide
  /\ handles = [k \in Slots |-> NoHandle]
  /\ crashed = FALSE
  /\ evicted = <<>>
  /\ budget = MaxOpensStatus
  /\ ghosts = {"mtime"}
  /\ written = [p \in Paths |-> NoWrite]
  /\ removed = [p \in Paths |-> "no"]

NextStatus ==
  \/ Next
  \/ \E k \in Slots : CloseNilBase(k)

SpecStatus == InitStatus /\ [][NextStatus]_vars

\* ------------------------------------------------------- failing tier calls
\* The tiers are filesystems of the operating system: any call on them may
\* return an error.  The steps of copyToCache, of SizeCacheFile.Close and of
\* the eviction loop that return their tier's error to the caller:
CopySteps == {"base.Open", "cache.Create", "io.Copy", "bfh.Stat", "lfh.Close",
              "bfh.Close", "cache.Chtimes"}
SyncSteps == {"Base.Truncate", "io.Copy", "Base.Sync"}
CloseSteps == SyncSteps \cup {"Base.Stat", "Base.Close", "Cache.Close"}

\* the cache tier after a copyToCache whose step fails, the clock reading t:
\* the copy is removed again where io.Copy, the size comparison or lfh.Close
\* fails, and is left, with the time of its writing, where bfh.Close or
\* cache.Chtimes fails
copyToCacheFault(cfs, bfs, name, step, t) ==
  LET copied == Touch([cfs EXCEPT !.names[name] = PathRank(name),
                                  !.data[PathRank(name)] = bfs.data[bfs.names[name]]],
                      PathRank(name), t)
  IN IF step \in {"base.Open", "cache.Create"} THEN cfs
     ELSE IF step \in {"io.Copy", "bfh.Stat", "lfh.Close"} THEN FsRemove(copied, name).fs
     ELSE copied

\* what an open whose copyToCache fails at step leaves behind
copyFault(p, step) ==
  /\ budget' = budget - 1
  /\ now' \in statusClock(p)
  /\ LET r == removeFromCache(files, currSize, p)
     IN /\ files' = r.files
        /\ currSize' = r.currSize
        /\ cache' = copyToCacheFault(cache, base, p, step, now')
        /\ dirs' = IF step = "base.Open" THEN dirs
                   ELSE [dirs EXCEPT !.cache = copyToCacheDirs(@, p)]
  /\ evicted' = <<>>
  /\ UNCHANGED <<svars, zvars, cacheTime, cacheSize, cacheindex, base, handles, crashed, ghosts,
                 written, removed>>

\* SizeCacheFS.Open returning the error of copyToCache
OpenFault(p, step) ==
  /\ CanOpen
  /\ \E t \in statusClock(p) :
       /\ now' = t
       /\ \/ cacheStatus(cache, base, p, t) = "cacheMiss" /\ FsStat(base, p).err = "nil"
          \/ cacheStatus(cache, base, p, t) = "cacheStale"
  /\ copyFault(p, step)

\* SizeCacheFS.OpenFile returning the error of copyToCache, whatever the flag
OpenFileFault(p, step) ==
  /\ CanOpen
  /\ \E t \in statusClock(p) :
       /\ now' = t
       /\ cacheStatus(cache, base, p, t) \in {"cacheMiss", "cacheStale"}
       /\ FsExists(base, p)
  /\ copyFault(p, step)

\* the base tier after a Sync of slot k that fails at step with n bytes copied
SyncFault(bfs, cfs, k, step, n) ==
  IF step = "Base.Truncate" THEN bfs
  ELSE IF step = "io.Copy"
  THEN [bfs EXCEPT !.data[bfs.refs[k]] = SubSeq(FileData(cfs, k), 1, n)]
  ELSE [bfs EXCEPT !.data[bfs.refs[k]] = FileData(cfs, k)]

\* SizeCacheFile.Close returning the error of step.  Sync and Base.Stat return
\* before either file is closed; after Base.Close the Cache file stays open;
\* after Cache.Close neither Chtimes nor addToCache is called.  A file of the
\* operating system is closed by a Close that returns an error.
CloseFault(k, step, n) ==
  /\ ~crashed
  /\ handles[k].open
  /\ handles[k].hasBase
  /\ base.refs[k] # 0
  /\ step \in SyncSteps => handles[k].flag # O_RDONLY
  /\ n <= Len(FileData(cache, k))
  /\ step # "io.Copy" => n = 0
  /\ LET h == handles[k]
         b1 == IF h.flag = O_RDONLY \/ step = "Base.Truncate" THEN base
               ELSE Touch(SyncFault(base, cache, k, step, n), base.refs[k], now)
     IN /\ base' = IF step \in {"Base.Close", "Cache.Close"} THEN FsCloseFile(b1, k) ELSE b1
        /\ cache' = IF step = "Cache.Close" THEN FsCloseFile(cache, k) ELSE cache
        \* io.Copy has read the Cache file from its start: the offset is not put back
        /\ handles' = IF step = "Cache.Close" THEN [handles EXCEPT ![k] = NoHandle]
                      ELSE IF step = "io.Copy" THEN [handles EXCEPT ![k].off = n]
                      ELSE handles
  /\ evicted' = <<>>
  /\ UNCHANGED <<svars, zvars, cacheTime, cacheSize, cacheindex, currSize, files, dirs, now, crashed,
                 budget, ghosts, written, removed>>

\* the eviction loop of addToCache where cache.Remove of its failAt-th victim
\* returns an error that is not ErrNotExist: the victim is popped, its file and
\* currSize are as before.  before: the index and currSize when it was popped.
RECURSIVE evictLoopFault(_, _, _)
evictLoopFault(st, size, failAt) ==
  IF cacheIsFull(st.currSize, size)
  THEN IF st.files = {}
       THEN [st EXCEPT !.panic = TRUE]
       ELSE LET file == PopMin(st.files)
                rest == st.files \ {file}
            IN IF failAt = 1
               THEN [st EXCEPT !.files = rest,
                               !.victims = Append(@, [victim |-> file, rest |-> rest]),
                               !.err = "error removing cache file",
                               !.before = [files |-> st.files, currSize |-> st.currSize]]
               ELSE evictLoopFault([st EXCEPT !.files = rest,
                                              !.currSize = @ - file.Size,
                                              !.cache = FsRemove(@, file.Path).fs,
                                              !.victims = Append(@, [victim |-> file,
                                                                     rest |-> rest])],
                                   size, failAt - 1)
  ELSE st

\* addToCache with that error: it returns from inside the loop
addToCacheFault(fl, cs, cfs, info, failAt) ==
  LET node == getCacheFile(fl, info.Path)
      cs1 == IF node # NilInfo THEN cs - node.Size ELSE cs
  IN evictLoopFault([files |-> fl, currSize |-> cs1, cache |-> cfs, victims |-> <<>>,
                     panic |-> FALSE, err |-> "nil",
                     before |-> [files |-> fl, currSize |-> cs]], info.Size, failAt)

\* the failing admission of the Close of slot k, the clock reading t
CloseAdmitFault(k, t, failAt) ==
  LET h == handles[k]
      b1 == IF h.flag = O_RDONLY THEN base
            ELSE Touch(Sync(base, cache, k, h.flag), base.refs[k], t)
      c1 == FsChtimes(FsCloseFile(cache, k), h.name, b1.mtime[b1.refs[k]])
  IN addToCacheFault(files, currSize, c1,
                     cacheFile(h.info, Len(FileData(b1, k)), UnixMicro(t)), failAt)

\* SizeCacheFile.Close returning the error of addToCache
CloseEvictFault(k, failAt) ==
  /\ ~crashed
  /\ handles[k].open
  /\ handles[k].hasBase
  /\ base.refs[k] # 0
  /\ handles[k].info # ""
  /\ now' \in now..MaxTime
  /\ LET h == handles[k]
         b1 == IF h.flag = O_RDONLY THEN base
               ELSE Touch(Sync(base, cache, k, h.flag), base.refs[k], now')
         r == CloseAdmitFault(k, now', failAt)
     IN /\ r.err # "nil"
        /\ handles' = [handles EXCEPT ![k] = NoHandle]
        /\ base' = FsCloseFile(b1, k)
        /\ cache' = r.cache
        /\ dirs' = [dirs EXCEPT !.cache = removeEmptyParents(@, r.cache, r.victims)]
        /\ files' = r.files
        /\ currSize' = r.currSize
        /\ evicted' = r.victims
  /\ UNCHANGED <<svars, zvars, cacheTime, cacheSize, cacheindex, crashed, budget, ghosts, written,
                 removed>>

\* The program on tiers whose calls may fail: an overlay without cacheTime
\* constructed on two tiers that hold files of one byte already.
FailAts == 1..MaxCacheSize
InitFault ==
  /\ cacheSize \in 1..MaxCacheSize
  /\ cacheTime = 0
  /\ base \in {TierOf(age) : age \in [RootPaths -> {0 - 1, 0}]}
  /\ cache \in {TierOf(age) : age \in [RootPaths -> {0 - 1, 0}]}
  /\ now = 0
  /\ LET st == buildIndex([files |-> {}, currSize |-> 0],
                          walkIndex(cache, {p \in Paths : FsExists(cache, p)}))
     IN files = st.files /\ currSize = st.currSize
  /\ dirs = NoDirs
  /\ cacheindex = NoIndex
  /\ NoZst
  /\ NoSide
  /\ handles = [k \in Slots |-> NoHandle]
  /\ crashed = FALSE
  /\ evicted = <<>>
  /\ budget = MaxOpensFault
  /\ ghosts = {}
  /\ written = [p \in Paths |-> NoWrite]
  /\ removed = [p \in Paths |-> "no"]

NextFault ==
  \/ Next
  \/ \E p \in RootPaths, step \in CopySteps : OpenFault(p, step)
  \/ \E p \in RootPaths, step \in CopySteps : OpenFileFault(p, step)
  \/ \E k \in Slots, step \in CloseSteps, n \in 0..MaxLen : CloseFault(k, step, n)
  \/ \E k \in Slots, failAt \in FailAts : CloseEvictFault(k, failAt)

SpecFault == InitFault /\ [][NextFault]_vars

\* The program of a client that also calls Sync on its handles.
InitSync ==
  /\ cacheSize \in 1..MaxCacheSize
  /\ currSize = 0
  /\ files = {}
  /\ base = EmptyFs
  /\ cache = EmptyFs
  /\ dirs = NoDirs
  /\ cacheindex = NoIndex
  /\ cacheTime = 0
  /\ NoZst
  /\ NoSide
  /\ handles = [k \in Slots |-> NoHandle]
  /\ now = 0
  /\ crashed = FALSE
  /\ evicted = <<>>
  /\ budget = MaxOpensSync
  /\ ghosts = {}
  /\ written = [p \in Paths |-> NoWrite]
  /\ removed = [p \in Paths |-> "no"]

NextSync ==
  \/ Next
  \/ \E k \in Slots : FileSync(k)

SpecSync == InitSync /\ [][NextSync]_vars

TypeOK ==
  /\ cacheSize \in 0..MaxCacheSize
  /\ now \in 0..MaxTime
  /\ crashed \in BOOLEAN
  /\ budget \in 0..MaxOpens

\* ------------------------------------------------------------- properties
RECURSIVE SumSizes(_)
SumSizes(fl) ==
  IF fl = {} THEN 0
  ELSE LET e == CHOOSE x \in fl : TRUE IN e.Size + SumSizes(fl \ {e})

\* C1: immediately after every successful close of a file handle, currSize is
\* at most the capacity, whatever the size of the file just closed.
C1_CloseLeavesCurrSizeWithinCapacity ==
  [][\A k \in Slots : (Close(k) /\ ~crashed') => currSize' <= cacheSize]_vars

\* C2: whenever no operation is in progress, currSize is the sum of the Size
\* fields of the entries in the index.
C2_CurrSizeIsSumOfIndex == ~crashed => currSize = SumSizes(files)

\* C3: while a handle on path p is open, no admission selects p as a victim
\* (and so none removes p's file from the cache tier).
C3_OpenPathIsNeverVictim ==
  \A i \in 1..Len(evicted) : \A k \in Slots :
     handles[k].open => handles[k].name # evicted[i].victim.Path

\* C7: from open to close of a handle on p, p has no entry in the index.
C7_OpenPathHasNoEntry ==
  \A k \in Slots : handles[k].open => getCacheFile(files, handles[k].name) = NilInfo

\* C4: where the last write to p was committed by a close, open(p) reads
\* exactly the bytes last written.
C4_OpenReadsLastWritten ==
  [][\A p \in Paths :
       (Open(p) /\ handles'[Slot].open /\ written[p].valid)
          => FileData(cache', Slot) = written[p].data]_vars

\* C5: every victim's timestamp is at most the timestamp of every entry that
\* stays in the index.
C5_VictimIsLeastRecentlyUsed ==
  \A i \in 1..Len(evicted) : \A e \in evicted[i].rest :
     evicted[i].victim.LastAccessTime <= e.LastAccessTime

C5_Witness ==
  \E i \in 1..Len(evicted) : \E e \in evicted[i].rest :
     evicted[i].victim.LastAccessTime < e.LastAccessTime

\* C6: after a writing handle on p is closed, every later open or
\* openWithFlags of p reads the content as of that close (nothing, where the
\* open truncates).
C6_ReadYourWrites ==
  [][\A p \in Paths : written[p].valid =>
       /\ (Open(p) /\ handles'[Slot].open) => FileData(cache', Slot) = written[p].data
       /\ \A flag \in OpenFlags : (OpenFile(p, flag) /\ handles'[Slot].open) =>
             FileData(cache', Slot) = IF "O_TRUNC" \in flag THEN <<>> ELSE written[p].data]_vars

\* C8: a successful close of a handle that carries an entry puts the entry
\* back with Size = the file's final length and LastAccessTime = the time of
\* the close, and currSize then counts exactly that length for the path.
C8_CloseReattachesFinalSize ==
  [][\A k \in Slots : (Close(k) /\ handles[k].info # "" /\ ~crashed') =>
       LET p == handles[k].info
           n == Len(FileData(cache, k))
       IN /\ cacheFile(p, n, UnixMicro(now')) \in files'
          /\ currSize' = SumSizes({e \in files' : e.Path # p}) + n]_vars

\* C9: remove(p) of a path in the cache tier and the index gives the entry's
\* size back and deletes p from index, cache tier and base tier; remove(p) of
\* a path not in the cache tier leaves index and currSize alone and deletes p
\* from the base tier.
C9_RemoveAccounting ==
  [][\A p \in Paths : Remove(p) =>
       /\ (FsExists(cache, p) /\ getCacheFile(files, p) # NilInfo) =>
             /\ currSize' = currSize - getCacheFile(files, p).Size
             /\ getCacheFile(files', p) = NilInfo
             /\ ~FsExists(cache', p)
             /\ ~FsExists(base', p)
       /\ ~FsExists(cache, p) =>
             /\ files' = files
             /\ currSize' = currSize
             /\ ~FsExists(base', p)]_vars

C9_Witness ==
  \E p, q \in Paths : removed[p] = "cached" /\ removed[q] = "uncached"

\* C10: after a successful remove(p) with no creation of p since, stat(p)
\* reports not-found and another remove(p) returns the not-found error itself.
C10_RemovedStaysNotFound ==
  \A p \in Paths : removed[p] # "no" =>
     /\ Stat(p).err = "ErrNotExist"
     /\ RemoveErr(p) = "ErrNotExist"

C10_Witness ==
  \E p \in Paths : removed[p] = "again" /\ ~FsExists(cache, p)

\* C11: after removeRecursive(d) has returned without error, the index holds no
\* entry at or below d, currSize has gone down by exactly the sizes of the
\* entries that were at or below d, d and all below it are gone from both
\* tiers, and the entries outside d and the open handles are as they were.
C11_RemoveAllAccounting ==
  [][\A d \in Dirs : (RemoveAll(d) /\ RemoveAllResult(d).err = "nil") =>
       /\ \A e \in files' : e.Path \notin Under(d)
       /\ currSize' = currSize - SumSizes({e \in files : e.Path \in Under(d)})
       /\ \A p \in Under(d) : ~FsExists(cache', p) /\ ~FsExists(base', p)
       /\ d \notin (dirs'.base \cup dirs'.cache)
       /\ {e \in files' : e.Path \notin Under(d)} = {e \in files : e.Path \notin Under(d)}
       /\ handles' = handles]_vars

\* C12: after a successful rename(old, new) of a file that is in the cache
\* tier and in the index, the index has an entry keyed new with the Size and
\* the LastAccessTime the entry had under old and none keyed old, currSize is
\* unchanged when new had no entry before, and in both tiers the file is
\* there under new and not under old.
C12_RenameKeepsEntry ==
  [][\A old, new \in Paths :
       (/\ Rename(old, new) /\ ~crashed' /\ RenameErr(old, new) = "nil"
        /\ FsExists(cache, old) /\ getCacheFile(files, old) # NilInfo) =>
          /\ cacheFile(new, getCacheFile(files, old).Size,
                       getCacheFile(files, old).LastAccessTime) \in files'
          /\ getCacheFile(files', old) = NilInfo
          /\ getCacheFile(files, new) = NilInfo => currSize' = currSize
          /\ FsExists(cache', new) /\ ~FsExists(cache', old)
          /\ FsExists(base', new) /\ ~FsExists(base', old)]_vars

\* the bytes written so far by a client that only creates, writes and closes
RECURSIVE Payload(_)
Payload(ps) ==
  IF ps = {} THEN 0
  ELSE LET p == CHOOSE x \in ps : TRUE
           ks == {k \in Slots : handles[k].open /\ handles[k].name = p}
       IN (IF ks # {} THEN Len(FileData(cache, MinOf(ks))) ELSE FsStat(base, p).size)
          + Payload(ps \ {p})

AllClosed == \A k \in Slots : ~handles[k].open

\* C13: the admission of a close evicts only when currSize plus the admitted
\* size exceeds the capacity; so while a client that only creates distinct
\* paths, writes and closes has written no more than the capacity, nothing is
\* evicted, and once all handles are closed currSize is the number of bytes
\* written.
C13_EvictsOnlyWhenOverCapacity ==
  [][/\ \A k \in Slots : (Close(k) /\ evicted' # <<>>) =>
            currSize + Len(FileData(cache, k)) > cacheSize
     /\ Payload(Paths)' <= cacheSize =>
            /\ evicted' = <<>>
            /\ AllClosed' => currSize' = Payload(Paths)']_vars

C13_Witness ==
  /\ AllClosed
  /\ Payload(Paths) = cacheSize
  /\ Cardinality({e \in files : e.Size > 0}) > 1

\* C14: whenever no operation is in progress, every path with an entry in the
\* index has a file in the cache tier.
C14_IndexedPathIsCached ==
  ~crashed => \A e \in files : FsExists(cache, e.Path)

\* C15: whenever no operation is in progress, every file of the cache tier
\* that no handle holds open has an entry in the index.
C15_CachedPathIsIndexed ==
  ~crashed =>
     \A p \in Paths : (FsExists(cache, p) /\ Holders(cache, cache.names[p]) = {}) =>
        getCacheFile(files, p) # NilInfo

\* C16: with no handle open, closing the overlay and then constructing a new
\* one on the same tiers gives an index with the same (path, size, timestamp)
\* entries and the same currSize: the constructor run on the .cacheindex that
\* Close writes for the index as it is leaves files and currSize as they are.
C16_CloseThenConstructRoundTrip ==
  [][(/\ NewSizeCacheFS
      /\ cacheindex = [state |-> "json", doc |-> Marshal(files)]) =>
        /\ files' = files
        /\ currSize' = currSize]_vars

\* C17: the constructor on a cache tier without .cacheindex gives an index
\* with exactly one entry for every file of the cache tier, with the file's
\* size and its modification time (in the clock's milliseconds) as timestamp,
\* and currSize the sum of those sizes.
C17_WalkBuildsIndex ==
  [][(NewSizeCacheFS /\ cacheindex = NoIndex) =>
        LET found == {cacheFile(p, Len(cache.data[cache.names[p]]), cache.mtime[cache.names[p]]) :
                        p \in {q \in Paths : FsExists(cache, q)}}
        IN /\ files' = found
           /\ currSize' = SumSizes(found)]_vars

\* an entry that a walk has stamped, with a later modification time than another
C17_Witness ==
  /\ cacheindex = NoIndex
  /\ \E e, o \in files : /\ e.Size > 0 /\ o.Size > 0
                         /\ e.LastAccessTime % MicrosPerMilli # 0
                         /\ o.LastAccessTime = 0

\* C18: the constructor on a cache tier with a .cacheindex gives an index
\* that has no entry whose cache file is missing, and that has an entry,
\* stamped with the file's modification time, for every cache file the
\* .cacheindex does not list.
C18_LoadReconcilesIndex ==
  [][(NewSizeCacheFS /\ cacheindex.state # "absent") =>
        /\ \A e \in files' : FsExists(cache, e.Path)
        /\ \A p \in Paths :
              (/\ FsExists(cache, p)
               /\ \A i \in 1..Len(cacheindex.doc) : cacheindex.doc[i].Path # p) =>
                 \E e \in files' : /\ e.Path = p
                                    /\ e.LastAccessTime = cache.mtime[cache.names[p]]]_vars

\* C19: the constructor does not fail on a .cacheindex that cannot be decoded:
\* it returns the overlay that the walk of the cache tier gives.
C19_UndecodableIndexFallsBack ==
  cacheindex.state = "torn" =>
     /\ NewSizeCacheFSResult.err = "nil"
     /\ NewSizeCacheFSResult.files =
           buildIndex([files |-> {}, currSize |-> 0],
                      walkIndex(cache, {p \in Paths : FsExists(cache, p)})).files

\* C20: with capacity 0 no admission succeeds: after every close of a handle
\* the index is empty, currSize is 0 and the cache tier holds no file.
C20_ZeroCapacityAdmitsNothing ==
  [][\A k \in Slots : (Close(k) /\ cacheSize = 0 /\ ~crashed') =>
        /\ files' = {}
        /\ currSize' = 0
        /\ \A p \in Paths : ~FsExists(cache', p)]_vars

\* C25: on a handle of the compression overlay, ReadAt, WriteAt, Truncate and
\* Mmap return the not-permitted error in every state of the handle and for
\* every argument, and leave the handle (reader, writer, read offset) as it is.
C25_RandomAccessRefused ==
  [][/\ (\E n \in 1..MaxZLen, off \in 0..MaxZLen : ZReadAt(n, off)) =>
            zret'.err = "EPERM" /\ zfile' = zfile
     /\ (\E byte \in Bytes, off \in 0..MaxZLen : ZWriteAt(byte, off)) =>
            zret'.err = "EPERM" /\ zfile' = zfile
     /\ (\E size \in 0..MaxZLen : ZTruncate(size)) =>
            zret'.err = "EPERM" /\ zfile' = zfile
     /\ (\E off \in 0..MaxZLen, len \in 1..MaxZLen : ZMmap(off, len)) =>
            zret'.err = "EPERM" /\ zfile' = zfile]_vars

\* a refusal on a handle that has read part of its stream
C25_Witness ==
  /\ zret.op \in {"ReadAt", "WriteAt", "Truncate", "Mmap"}
  /\ zfile.reader.active
  /\ zfile.readOffset > 0
  /\ zfile.reader.pending # <<>>

\* C26: Seek on a handle of the compression overlay succeeds only as
\* (start, 0) with the stream at offset 0, as (current, 0), which changes
\* nothing, or as (current, n) with n > 0, which moves the stream on by n
\* bytes; every other whence and offset gives the not-permitted error and
\* leaves the stream where it is.
C26_SeekOnlyForward ==
  [][\A offset \in (0 - 1)..(MaxZLen + 1), whence \in Whences, early \in BOOLEAN :
       ZSeek(offset, whence, early) =>
         /\ zret'.err = "nil" =>
              \/ /\ whence = "SeekStart" /\ offset = 0
                 /\ StreamPos(zfile) = 0
                 /\ StreamPos(zfile') = 0
              \/ /\ whence = "SeekCurrent" /\ offset = 0
                 /\ zfile' = zfile
              \/ /\ whence = "SeekCurrent" /\ offset > 0
                 /\ StreamPos(zfile') = StreamPos(zfile) + offset
         /\ (\/ whence = "SeekEnd"
             \/ whence = "SeekStart" /\ offset # 0
             \/ whence = "SeekCurrent" /\ offset < 0) =>
              /\ zret'.err = "EPERM"
              /\ StreamPos(zfile') = StreamPos(zfile)]_vars

ZReadAll(name) ==
  LET rd == ZReaderOf(NewZFile(name, O_RDONLY, O_RDONLY))
  IN [data |-> rd.pending, err |-> rd.end]

\* C28: a handle that Create of the compression overlay returns, or OpenFile
\* with write-only or read-write flags, accepts Write; and once it is closed,
\* Open of the same path reads, up to the end of the stream, exactly the bytes
\* that were written through it.
C28_WriteCloseReadRoundTrip ==
  [][/\ \A byte \in Bytes :
          (/\ ZWrite(byte)
           /\ ~zfile.closed /\ ~zfile.reader.active
           /\ zfile.File.oflag \cap {"O_WRONLY", "O_RDWR"} # {}) => zret'.err = "nil"
     /\ (ZClose /\ zfile.wrote # <<>>) =>
           ZReadAll(zfile.File.name)' = [data |-> zfile.wrote, err |-> "EOF"]]_vars

\* the classification of path p that the claim gives, the clock reading t
ClaimedStatus(p, t) ==
  IF ~FsExists(cache, p) THEN "cacheMiss"
  ELSE IF ~FsExists(base, p) THEN "cacheLocal"
  ELSE IF \/ base.mtime[base.names[p]] > cache.mtime[cache.names[p]]
          \/ cacheTime # 0 /\ ttlElapsed(cache, p, t)
       THEN "cacheStale"
  ELSE "cacheHit"

\* C29: the overlay classifies a path as MISS exactly when the cache tier
\* lacks it, LOCAL exactly when the cache tier has it and the base tier lacks
\* it, STALE exactly when both have it and the base file is strictly newer or
\* the cacheTime has elapsed, HIT otherwise; with cacheTime 0 there is no
\* expiry, and a cached path whose base file is strictly newer is still STALE
\* and the next open copies it again.
C29_StatusClassification ==
  [][\A p \in RootPaths : Open(p) =>
       /\ cacheStatus(cache, base, p, now') = ClaimedStatus(p, now')
       /\ (/\ FsExists(cache, p) /\ FsExists(base, p)
           /\ base.mtime[base.names[p]] > cache.mtime[cache.names[p]]) =>
             /\ handles'[Slot].open
             /\ FileData(cache', Slot) = base.data[base.names[p]]
             /\ cache'.mtime[cache'.names[p]] = base.mtime[base.names[p]]]_vars

\* C21: an open of p whose copy-on-read fails, at whichever step, leaves no
\* cache file for p and no entry for p, and the next open classifies p as a
\* miss again.
C21_FailedCopyCleansUp ==
  [][\A p \in RootPaths, step \in CopySteps :
       (OpenFault(p, step) \/ OpenFileFault(p, step)) =>
          /\ ~FsExists(cache', p)
          /\ getCacheFile(files', p) = NilInfo
          /\ \A t \in now'..MaxTime : cacheStatus(cache, base, p, t)' = "cacheMiss"]_vars

\* C22: where the removal of a victim's file fails during the admission of a
\* close, the index and currSize are left as they were when that victim was
\* selected: the victim is in the index and its size is counted.
C22_FailedEvictionKeepsVictim ==
  [][\A k \in Slots, failAt \in FailAts :
       CloseEvictFault(k, failAt) =>
          LET r == CloseAdmitFault(k, now', failAt)
          IN /\ r.victims[Len(r.victims)].victim \in files'
             /\ files' = r.before.files
             /\ currSize' = r.before.currSize]_vars

\* C23: a close that returns the error of one of its steps (sync to base, base
\* stat, closing the base file, closing the cache file) has closed both files
\* of the handle.
C23_FailedCloseClosesBoth ==
  [][\A k \in Slots, step \in CloseSteps, n \in 0..MaxLen :
       CloseFault(k, step, n) => base'.refs[k] = 0 /\ cache'.refs[k] = 0]_vars

\* C24: for a path p that the base tier has, with every handle closed, the size
\* that Stat(p) reports equals the number of bytes that the handle of Open(p)
\* reads up to the end of the file.
C24_StatSizeIsReadSize ==
  [][\A p \in RootPaths :
       (Open(p) /\ AllClosed /\ Stat(p).err = "nil" /\ handles'[Slot].open) =>
          Stat(p).size = Len(FileData(cache', Slot))]_vars

\* C30: Sync on a handle opened with a flag other than O_RDONLY leaves the
\* base file of the handle with exactly the bytes of its cache file, which it
\* does not change, and the offset of the handle where it was; Sync on a handle
\* opened with O_RDONLY changes neither tier.
C30_SyncCopiesCacheToBase ==
  [][\A k \in Slots : FileSync(k) =>
       IF handles[k].flag # O_RDONLY
       THEN /\ FileData(base', k) = FileData(cache, k)
            /\ cache' = cache
            /\ handles'[k].off = handles[k].off
       ELSE base' = base /\ cache' = cache]_vars

\* after its only open a handle has written a byte and Sync has taken it to the
\* base file, the offset behind the byte
C30_Witness ==
  /\ budget = MaxOpensSync - 1
  /\ \E k \in Slots :
       /\ handles[k].open
       /\ handles[k].flag # O_RDONLY
       /\ handles[k].off = 1
       /\ FileData(cache, k) # <<>>
       /\ FileData(base, k) = FileData(cache, k)

\* the sizes of the victims other than the entry of p
RECURSIVE OtherVictimSizes(_, _)
OtherVictimSizes(victims, p) ==
  IF victims = <<>> THEN 0
  ELSE (IF Head(victims).victim.Path = p THEN 0 ELSE Head(victims).victim.Size)
       + OtherVictimSizes(Tail(victims), p)

\* C36: the admission of the close of a handle on p, or of a rename onto p,
\* that finds an entry of p in the index never takes that entry as a victim,
\* never removes the cache file of p, and takes the size of that entry from
\* currSize once.
C36_OwnEntryIsNoVictim ==
  [][/\ \A k \in Slots :
          (Close(k) /\ handles[k].info # "" /\ getCacheFile(files, handles[k].info) # NilInfo) =>
             LET p == handles[k].info
             IN /\ ~crashed'
                /\ \A i \in 1..Len(evicted') : evicted'[i].victim.Path # p
                /\ FsExists(cache, p) => FsExists(cache', p)
                /\ currSize' = currSize - getCacheFile(files, p).Size
                                 - OtherVictimSizes(evicted', p) + getCacheFile(files', p).Size
     /\ \A old, new \in RootPaths :
          (/\ Rename(old, new)
           /\ FsExists(cache, old)
           /\ getCacheFile(files, old) # NilInfo
           /\ getCacheFile(files, new) # NilInfo) =>
             /\ ~crashed'
             /\ \A i \in 1..Len(evicted') : evicted'[i].victim.Path # new]_vars

\* C37: an Open or OpenFile that returns an error (it hands out no handle)
\* leaves the index and currSize as they were.
C37_FailedOpenKeepsIndex ==
  [][/\ \A p \in RootPaths :
          (Open(p) /\ handles' = handles) => files' = files /\ currSize' = currSize
     /\ \A p \in RootPaths, flag \in OpenFlags :
          (OpenFile(p, flag) /\ handles' = handles) => files' = files /\ currSize' = currSize]_vars

\* C38: Rename of a path old that the cache tier has completes without a
\* crash, also where the index has no entry for old; the cache tier and the
\* base tier then have old under the new name and the index has no entry
\* keyed old.
C38_RenameOfCachedPathCompletes ==
  [][\A old, new \in RootPaths :
       (Rename(old, new) /\ FsExists(cache, old)) =>
          /\ ~crashed'
          /\ RenameErr(old, new) = "nil" =>
                /\ ~FsExists(cache', old) /\ FsExists(cache', new)
                /\ ~FsExists(base', old)
                /\ getCacheFile(files', old) = NilInfo]_vars

\* C40: whenever currSize is positive the index has an entry, so the eviction
\* loop of an admission always finds a victim, and it pops no more victims
\* than the index had entries.
C40_EvictionLoopFindsVictim ==
  [][/\ \A k \in Slots : Close(k) => ~crashed' /\ Len(evicted') <= Cardinality(files)
     /\ \A old, new \in RootPaths :
          (Rename(old, new) /\ getCacheFile(files, old) # NilInfo) =>
             ~crashed' /\ Len(evicted') <= Cardinality(files)
     /\ currSize' > 0 => files' # {}]_vars

\* C35: admitting the entry of a close once more, at the same or a later
\* time, changes nothing but its time: the index has one entry for the path,
\* every other entry and the cache tier are as they were, and currSize is
\* what the first admission left.
C35_AdmissionIsIdempotent ==
  [][\A k \in Slots :
       (Close(k) /\ handles[k].info # "" /\ ~crashed') =>
          \A t \in now'..MaxTime :
             LET p == handles[k].info
                 info == cacheFile(p, getCacheFile(files', p).Size, UnixMicro(t))
                 again == addToCache(files', currSize', cache', info)
             IN /\ ~again.panic
                /\ again.victims = <<>>
                /\ again.files = AddOrUpdate(files', info)
                /\ Cardinality({e \in again.files : e.Path = p}) = 1
                /\ again.currSize = currSize'
                /\ again.cache = cache']_vars

\* the close of a handle has admitted its entry of one byte or more and has
\* evicted for it
C35_Witness ==
  /\ evicted # <<>>
  /\ \E e \in files : e.Size > 0 /\ e \notin evicted[Len(evicted)].rest

\* C32: when the handle of an Open of a cached path p is closed and no other
\* handle on p is open, the index has an entry for p whose LastAccessTime is
\* at least that of every other entry.
C32_ReadRefreshesEntry ==
  [][\A k \in Slots :
       (/\ Close(k)
        /\ handles[k].flag = O_RDONLY
        /\ FsExists(cache, handles[k].name)
        /\ \A j \in Slots \ {k} : ~(handles[j].open /\ handles[j].name = handles[k].name)) =>
          LET e == getCacheFile(files', handles[k].name)
          IN /\ e # NilInfo
             /\ \A o \in files' : o.LastAccessTime <= e.LastAccessTime]_vars

\* C31: when a victim is evicted, its ancestor directories are visited from its
\* parent upwards: nothing but the victim and its ancestors leaves the tier, an
\* ancestor leaves it exactly when nothing is left below it but ancestors that
\* leave too, and no directory that still holds an entry is removed.
C31_EmptyAncestorsAreRemoved ==
  [][\A v \in GFiles : EvictVictim(v) =>
       /\ v \notin tree'
       /\ tree \ tree' \subseteq {v} \cup Ancestors(v)
       /\ tree' \subseteq tree
       /\ \A d \in Ancestors(v) \cap tree :
            d \notin tree' <=> \A n \in tree \ {v} : IsUnder(n, d) => n \in Ancestors(v)
       /\ \A d \in tree \ tree', n \in tree' : ~IsUnder(n, d)]_vars

\* the deepest file was evicted, two directories went with it and the walk stopped at one that holds a file
C31_Witness ==
  /\ victim.Path \in victim.from
  /\ Len(victim.Path) = MaxDepth + 1
  /\ Cardinality((victim.from \ tree) \cap GDirs) = 2
  /\ \E d \in GDirs \cap tree : Readdir(tree, d) # {}

\* C39: as long as every call on the UnionFile has succeeded, the content of
\* the base file is the content of the layer file.
C39_BaseContentIsLayerContent == ~ufailed => ubase.data = ulayer.data

\* C33: no caller that holds the cache lock is at a statement that calls a tier.
C33_NoTierCallUnderLock == \A c \in Callers : cacheL = c => pc[c] \notin IOSteps

\* C34: a step of a caller that changes the index, currSize or a field of an
\* object that the index points to is taken while that caller holds the cache lock.
C34_MutationsHoldLock ==
  [][\A c \in Callers :
       (/\ LStep(c)
        /\ \/ lfiles' # lfiles
           \/ lcurrSize' # lcurrSize
           \/ \E n \in lfiles : heap'[n.value] # heap[n.value]) => cacheL = c]_vars

====
